---------------------------- MODULE Spec2Model ----------------------------
(***************************************************************************)
(* Playback engine of abytetracker: the tick/row scheduler, the per-channel *)
(* voices, the effect processor, the echo bus and the sample renderer of    *)
(* pkg/audio (Player, ChannelState, Oscillator).                            *)
(*                                                                          *)
(* Number representation.  The Go code computes on float64; the model uses  *)
(* exact integers:                                                          *)
(*   frequency        milli-hertz                                           *)
(*   oscillator phase 1.0 = SampleRate * 1000, so that the phase increment  *)
(*                    Frequency / SampleRate is exactly the frequency       *)
(*   volume           1.0 = VolOne                                          *)
(*   oscillator value 1.0 = AmpOne                                          *)
(*   sample           1.0 = AmpOne * VolOne                                 *)
(*   envelope position the float64 value itself, in limbs (see FloatAdd)    *)
(* Go slices are 0-based; sequences here are 1-based, so a Go index i is    *)
(* the element i + 1.  An echo ring buffer is kept as the function of its   *)
(* non-zero entries; its length is the song's sample rate.                  *)
(***************************************************************************)
EXTENDS Integers, Sequences, FiniteSets, TLC

VARIABLES Song, Channels, Playing, Position, Pattern, Row, Tick,
          TickSamples, TickCounter, EchoBuffers, EchoPos,
          panic, buffer, contrib, rowLog, sinceRow, rowLen, callsLeft, samplesLeft,
          mu, genLeft, info

vars == <<Song, Channels, Playing, Position, Pattern, Row, Tick,
          TickSamples, TickCounter, EchoBuffers, EchoPos,
          panic, buffer, contrib, rowLog, sinceRow, rowLen, callsLeft, samplesLeft,
          mu, genLeft, info>>

-----------------------------------------------------------------------------
(* Fixed-point units *)
VolOne == 64 * 1000
AmpOne == 2 * 4

(* Effect types and generators of pkg/tracker *)
FxArpeggio == 0
FxSlideUp == 1
FxSlideDown == 2
FxPortamento == 3
FxVibrato == 4
FxVolume == 12
FxEcho == 14
FxSpeed == 15
FxOrnament == 16
FxDuty == 20

GenTriangle == 0
GenSawtooth == 1
GenSquare == 2
GenSawBig == 3
GenNoise == 4

-----------------------------------------------------------------------------
(* Integer helpers *)
Min(a, b) == IF a < b THEN a ELSE b
Max(a, b) == IF a > b THEN a ELSE b


RECURSIVE Pow2(_)
Pow2(n) == IF n <= 0 THEN 1 ELSE 2 * Pow2(n - 1)

(* floor division that also takes a negative dividend *)
FloorDiv(a, b) == a \div b

(* Go's int8 wrap-around *)
Int8(x) == ((x + 128) % 256) - 128

(* Go's remainder: truncated, takes the sign of the dividend *)
GoMod(a, b) == IF a >= 0 THEN a % b ELSE 0 - ((0 - a) % b)

-----------------------------------------------------------------------------
(* float64 values of the envelope position, exactly: a value is its       *)
(* multiple of 2^-62 written in four digits of 20 bits, lowest first.        *)
(* Every value 1.0/n (n = 1..255) and every rounded sum of such values below *)
(* 2^18 is a multiple of 2^-62.                                              *)
LimbBits == 20
LimbBase == 1048576
Limbs == 4
Digits(f(_)) == <<f(1), f(2), f(3), f(4)>>
UnitBit == 63
Mantissa == 53
FloatZero == <<0, 0, 0, 0>>

RECURSIVE BitLen(_)
BitLen(v) == IF v = 0 THEN 0 ELSE 1 + BitLen(v \div 2)

(* the position of the highest binary digit, 0 for 0.0 *)
TopBit(x) ==
    IF \A j \in 1..Limbs : x[j] = 0 THEN 0
    ELSE LET top == CHOOSE j \in 1..Limbs : x[j] # 0 /\ \A k \in (j + 1)..Limbs : x[k] = 0
         IN LimbBits * (top - 1) + BitLen(x[top])

(* binary digit i, counted from 1 *)
BitAt(x, i) ==
    IF i < 1 THEN 0
    ELSE (x[((i - 1) \div LimbBits) + 1] \div Pow2((i - 1) % LimbBits)) % 2

(* the lowest k binary digits of a 20-bit digit *)
LimbLow(v, k) == IF k <= 0 THEN 0 ELSE IF k >= LimbBits THEN v ELSE v % Pow2(k)

(* x without its lowest drop binary digits *)
Kept(x, drop) ==
    LET digit(j) == x[j] - LimbLow(x[j], drop - LimbBits * (j - 1))
    IN Digits(digit)

(* 2^(i-1) units *)
BitOnly(i) ==
    LET digit(j) == IF ((i - 1) \div LimbBits) + 1 = j THEN Pow2((i - 1) % LimbBits) ELSE 0
    IN Digits(digit)

(* x + y without rounding: the carry into digit j, and the digits *)
RECURSIVE Carry(_, _, _)
Carry(x, y, j) ==
    IF j <= 1 THEN 0 ELSE (x[j - 1] + y[j - 1] + Carry(x, y, j - 1)) \div LimbBase

BitsAdd(x, y) ==
    LET digit(j) == (x[j] + y[j] + Carry(x, y, j)) % LimbBase
    IN Digits(digit)

(* round to nearest, ties to even, at 53 significant binary digits; sticky *)
(* tells that digits below x were dropped                                  *)
RoundUp(x, drop, sticky) ==
    /\ BitAt(x, drop) = 1
    /\ \/ sticky
       \/ \E j \in 1..Limbs : LimbLow(x[j], drop - 1 - LimbBits * (j - 1)) # 0
       \/ BitAt(x, drop + 1) = 1

RoundDouble(x, sticky) ==
    IF TopBit(x) <= Mantissa THEN x
    ELSE IF RoundUp(x, TopBit(x) - Mantissa, sticky)
         THEN BitsAdd(Kept(x, TopBit(x) - Mantissa), BitOnly(TopBit(x) - Mantissa + 1))
         ELSE Kept(x, TopBit(x) - Mantissa)

(* float64 addition *)
FloatAdd(x, y) == RoundDouble(BitsAdd(x, y), FALSE)

(* 1.0 / float64(n): long division of 2^62 by n from the highest digit     *)
(* down, rounded with the remainder as sticky                               *)
RECURSIVE DivRem(_, _)
DivRem(n, j) ==
    IF j > Limbs THEN 0 ELSE (DivRem(n, j + 1) * LimbBase + BitOnly(UnitBit)[j]) % n

Quotient(n) ==
    LET digit(j) == (DivRem(n, j + 1) * LimbBase + BitOnly(UnitBit)[j]) \div n
    IN Digits(digit)

FloatInverse(n) == RoundDouble(Quotient(n), DivRem(n, 1) # 0)

(* x >= 1.0 *)
AtLeastOne(x) == TopBit(x) >= UnitBit

(* floor(x * 2^bits) *)
ShiftLimb(v, e) ==
    IF e >= 0 THEN v * Pow2(e) ELSE IF e <= 0 - LimbBits THEN 0 ELSE v \div Pow2(0 - e)

FloatFix(x, bits) ==
    ShiftLimb(x[1], bits - (UnitBit - 1))
    + ShiftLimb(x[2], LimbBits + bits - (UnitBit - 1))
    + ShiftLimb(x[3], 2 * LimbBits + bits - (UnitBit - 1))
    + ShiftLimb(x[4], 3 * LimbBits + bits - (UnitBit - 1))

(* v * x for a fixed-point v and 0 <= x < 2, to 14 binary places of x *)
FloatScale(v, x) == FloorDiv(v * FloatFix(x, 14), 16384)

-----------------------------------------------------------------------------
(* Song data (pkg/tracker) *)
NoEffect == [Type |-> 0, Param |-> 0]
Fx(t, p) == [Type |-> t, Param |-> p]

(* an empty cell as NewPattern creates it *)
EmptyNote == [Pitch |-> -1, Instrument |-> 0, Volume |-> -1, Effect |-> NoEffect]
NoteOn(pitch, inst) == [Pitch |-> pitch, Instrument |-> inst, Volume |-> -1, Effect |-> NoEffect]
NoteFx(pitch, inst, fx) == [Pitch |-> pitch, Instrument |-> inst, Volume |-> -1, Effect |-> fx]
OffNote == [Pitch |-> -2, Instrument |-> 0, Volume |-> -1, Effect |-> NoEffect]
FxOnly(fx) == [Pitch |-> -1, Instrument |-> 0, Volume |-> -1, Effect |-> fx]

NewPattern(rows, channels) ==
    [Rows |-> rows, Notes |-> [r \in 1..rows |-> [c \in 1..channels |-> EmptyNote]]]

(* a pattern given by its rows of cells *)
PatternOf(notes) == [Rows |-> Len(notes), Notes |-> notes]

Env(a, d, s, r) == [Attack |-> a, Decay |-> d, Sustain |-> s, Release |-> r]
Inst(gen, env, orn, vol, duty) ==
    [Generator |-> gen, Envelope |-> env, Ornament |-> orn, Volume |-> vol, Duty |-> duty]
Orn(loop, values) == [Loop |-> loop, Values |-> values]
ChanCfg(gen, vol, muted, src, delay, evol) ==
    [Generator |-> gen, Volume |-> vol, Muted |-> muted,
     EchoSource |-> src, EchoDelay |-> delay, EchoVolume |-> evol]
DefaultChan(gen) == ChanCfg(gen, 64, FALSE, -1, 0, 0)

MkSong(speed, tempo, rate, insts, orns, pats, order, cfg) ==
    [Speed |-> speed, Tempo |-> tempo, SampleRate |-> rate, Channels |-> Len(cfg),
     Instruments |-> insts, Ornaments |-> orns, Patterns |-> pats,
     Order |-> order, ChanConfig |-> cfg]

-----------------------------------------------------------------------------
(* Oscillator (pkg/audio) *)

(* 440 * 2^(j/12) Hz for j = 0..11, in milli-hertz *)
SemitoneTable ==
    <<440000, 466164, 493883, 523251, 554365, 587330,
      622254, 659255, 698456, 739989, 783991, 830609>>

(* NoteToFreq: 440 * 2^((note-57)/12); note-57 is an int8 subtraction *)
NoteToFreq(note) ==
    LET k == Int8(note - 57)
        q == FloorDiv(k, 12)
        r == k % 12
    IN IF q >= 0 THEN SemitoneTable[r + 1] * Pow2(q)
                 ELSE SemitoneTable[r + 1] \div Pow2(0 - q)

(* Duty is kept in units of 1/510, so that 0.5 = 255 and x/255 = 2x *)
DutyHalf == 255 * 1
DutyOf255(x) == 2 * x

NewOscillator(genType) ==
    [Type |-> genType, Phase |-> 0, Frequency |-> 0, Duty |-> DutyHalf]

SetDuty(o, duty) ==
    [o EXCEPT !.Duty = IF duty < 0 THEN 0 ELSE IF duty > 2 * DutyHalf THEN 2 * DutyHalf ELSE duty]

SetFrequency(o, freq) == [o EXCEPT !.Frequency = freq]

OscReset(o) == [o EXCEPT !.Phase = 0]

(* the phase value that stands for 1.0 *)
PhaseOne(rate) == rate * 1000

triangle(ph, rate) ==
    IF 2 * ph < PhaseOne(rate)
    THEN FloorDiv(4 * ph * AmpOne, PhaseOne(rate)) - AmpOne
    ELSE 3 * AmpOne - FloorDiv(4 * ph * AmpOne, PhaseOne(rate))

sawtooth(ph, rate) == FloorDiv(2 * ph * AmpOne, PhaseOne(rate)) - AmpOne

square(ph, duty, rate) ==
    IF ph * 2 * DutyHalf < duty * PhaseOne(rate) THEN AmpOne ELSE 0 - AmpOne

(* int(Phase * 2048) & 2047, then val/1024 - 1 *)
sawBig(ph, rate) ==
    LET val == FloorDiv(ph * 2048, PhaseOne(rate)) % 2048
    IN FloorDiv(val * AmpOne, 1024) - AmpOne

(* seed = uint32(Phase * 1e6) * 1103515245 + 12345 (mod 2^32), read as an   *)
(* int32 and divided by MaxInt32; computed on 16-bit halves                 *)
noise(ph, rate) ==
    LET seed == FloorDiv(ph * 1000, rate)
        sLo  == seed % 65536
        sHi  == (seed \div 65536) % 65536
        mLo  == 20077
        mHi  == 16838
        low  == sLo * mLo + 12345
        lo   == low % 65536
        hi   == ((low \div 65536) + ((sLo * mHi) % 65536) + ((sHi * mLo) % 65536)) % 65536
        shi  == IF hi >= 32768 THEN hi - 65536 ELSE hi
    IN FloorDiv(shi * AmpOne + FloorDiv(lo * AmpOne, 65536), 32768)

(* a Sample that advances the phase whatever the frequency *)
OscSample_Unguarded(o, rate) ==
    LET p1 == o.Phase + o.Frequency
        ph == IF p1 >= PhaseOne(rate) THEN p1 - PhaseOne(rate) ELSE p1
        v  == CASE o.Type = GenTriangle -> triangle(ph, rate)
                 [] o.Type = GenSawtooth -> sawtooth(ph, rate)
                 [] o.Type = GenSquare   -> square(ph, o.Duty, rate)
                 [] o.Type = GenSawBig   -> sawBig(ph, rate)
                 [] o.Type = GenNoise    -> noise(ph, rate)
                 [] OTHER                -> 0
    IN [osc |-> [o EXCEPT !.Phase = ph], val |-> v]

(* Oscillator.Sample: the oscillator after the call and the value returned *)
OscSample(o, rate) ==
    IF o.Frequency <= 0
    THEN [osc |-> o, val |-> 0]
    ELSE LET p1 == o.Phase + o.Frequency
             ph == IF p1 >= PhaseOne(rate) THEN p1 - PhaseOne(rate) ELSE p1
             v  == CASE o.Type = GenTriangle -> triangle(ph, rate)
                      [] o.Type = GenSawtooth -> sawtooth(ph, rate)
                      [] o.Type = GenSquare   -> square(ph, o.Duty, rate)
                      [] o.Type = GenSawBig   -> sawBig(ph, rate)
                      [] o.Type = GenNoise    -> noise(ph, rate)
                      [] OTHER                -> 0
         IN [osc |-> [o EXCEPT !.Phase = ph], val |-> v]

-----------------------------------------------------------------------------
(* ChannelState (pkg/audio) *)

NewChannelState ==
    [Active |-> FALSE, Oscillator |-> NewOscillator(GenTriangle), Instrument |-> 0,
     Note |-> 0, BaseNote |-> 0, Volume |-> 0, TargetVol |-> 0, Frequency |-> 0,
     EnvPhase |-> 0, EnvPos |-> FloatZero,
     Ornament |-> 0, OrnPos |-> 0, OrnTick |-> 0,
     PortaTarget |-> 0, PortaSpeed |-> 0,
     VibDepth |-> 0, VibSpeed |-> 0, VibPos |-> 0, SlideSpeed |-> 0,
     EchoSource |-> -1, EchoDelay |-> 0, EchoVolMod |-> 0]

(* x/64 as a volume *)
VolOf64(x) == FloorDiv(x * VolOne, 64)

(* a Go pointer that may be nil: <<>> is nil, <<x>> points at x *)
Nil == <<>>
Ref(x) == <<x>>

(* TriggerNote; inst is Nil or Ref(instrument) *)
(* a trigger that does not take the instrument's volume *)
TriggerNote_NoInstrumentVolume(cs, note, inst, volume) ==
    [cs EXCEPT !.Active = TRUE, !.Note = note, !.BaseNote = note,
               !.Frequency = NoteToFreq(note),
               !.Oscillator = OscReset(SetFrequency(cs.Oscillator, NoteToFreq(note))),
               !.TargetVol = IF volume >= 0 THEN VolOf64(volume) ELSE cs.TargetVol,
               !.EnvPhase = 0, !.EnvPos = FloatZero, !.OrnPos = 0, !.OrnTick = 0]

(* a trigger that leaves the envelope in its phase *)
TriggerNote_KeepPhase(cs, note, inst, volume) ==
    LET f  == NoteToFreq(note)
        o1 == OscReset(SetFrequency(cs.Oscillator, f))
        o2 == IF inst = Nil THEN o1
              ELSE SetDuty([o1 EXCEPT !.Type = inst[1].Generator],
                           IF inst[1].Duty > 0 THEN DutyOf255(inst[1].Duty) ELSE DutyHalf)
        tv == IF volume >= 0 THEN VolOf64(volume)
              ELSE IF inst # Nil THEN VolOf64(inst[1].Volume)
              ELSE cs.TargetVol
    IN [cs EXCEPT !.Active = TRUE, !.Note = note, !.BaseNote = note,
                  !.Frequency = f, !.Oscillator = o2,
                  !.Ornament = IF inst = Nil THEN cs.Ornament ELSE inst[1].Ornament,
                  !.TargetVol = tv,
                  !.EnvPos = FloatZero, !.OrnPos = 0, !.OrnTick = 0]

TriggerNote(cs, note, inst, volume) ==
    LET f  == NoteToFreq(note)
        o1 == OscReset(SetFrequency(cs.Oscillator, f))
        o2 == IF inst = Nil THEN o1
              ELSE SetDuty([o1 EXCEPT !.Type = inst[1].Generator],
                           IF inst[1].Duty > 0 THEN DutyOf255(inst[1].Duty) ELSE DutyHalf)
        tv == IF volume >= 0 THEN VolOf64(volume)
              ELSE IF inst # Nil THEN VolOf64(inst[1].Volume)
              ELSE cs.TargetVol
    IN [cs EXCEPT !.Active = TRUE, !.Note = note, !.BaseNote = note,
                  !.Frequency = f, !.Oscillator = o2,
                  !.Ornament = IF inst = Nil THEN cs.Ornament ELSE inst[1].Ornament,
                  !.TargetVol = tv,
                  !.EnvPhase = 0, !.EnvPos = FloatZero, !.OrnPos = 0, !.OrnTick = 0]

(* a note-off that leaves the envelope in its phase *)
NoteOff_Hold(cs) == [cs EXCEPT !.EnvPos = FloatZero]

NoteOff(cs) == [cs EXCEPT !.EnvPhase = 3, !.EnvPos = FloatZero]

(* 0.001 as a volume *)
ReleaseFloor == VolOne \div 1000

(* ProcessEnvelope; envp is Nil or Ref(envelope) *)
ProcessEnvelope(cs, envp) ==
    IF envp = Nil THEN [cs EXCEPT !.Volume = cs.TargetVol]
    ELSE LET env == envp[1] IN
         CASE cs.EnvPhase = 0 ->
                IF env.Attack = 0
                THEN [cs EXCEPT !.Volume = cs.TargetVol, !.EnvPhase = 1]
                ELSE LET pos == FloatAdd(cs.EnvPos, FloatInverse(env.Attack))
                     IN IF AtLeastOne(pos)
                        THEN [cs EXCEPT !.Volume = cs.TargetVol, !.EnvPhase = 1,
                                        !.EnvPos = FloatZero]
                        ELSE [cs EXCEPT !.Volume = FloatScale(cs.TargetVol, pos),
                                        !.EnvPos = pos]
           [] cs.EnvPhase = 1 ->
                IF env.Decay = 0
                THEN [cs EXCEPT !.EnvPhase = 2]
                ELSE LET sustainLevel == FloorDiv(env.Sustain * cs.TargetVol, 64)
                         pos == FloatAdd(cs.EnvPos, FloatInverse(env.Decay))
                     IN IF AtLeastOne(pos)
                        THEN [cs EXCEPT !.Volume = sustainLevel, !.EnvPhase = 2,
                                        !.EnvPos = FloatZero]
                        ELSE [cs EXCEPT !.Volume = cs.TargetVol
                                            - FloatScale(cs.TargetVol - sustainLevel, pos),
                                        !.EnvPos = pos]
           [] cs.EnvPhase = 2 ->
                [cs EXCEPT !.Volume = FloorDiv(env.Sustain * cs.TargetVol, 64)]
           [] cs.EnvPhase = 3 ->
                IF env.Release = 0 \/ cs.Volume <= ReleaseFloor
                THEN [cs EXCEPT !.Volume = 0, !.Active = FALSE]
                ELSE LET pos == FloatAdd(cs.EnvPos, FloatInverse(env.Release))
                         v   == FloorDiv(cs.Volume * (10240 - FloatFix(pos, 10)), 10240)
                     IN IF v <= ReleaseFloor
                        THEN [cs EXCEPT !.Volume = 0, !.Active = FALSE, !.EnvPos = pos]
                        ELSE [cs EXCEPT !.Volume = v, !.EnvPos = pos]
           [] OTHER -> cs

(* ProcessOrnament; reading Values[OrnPos] outside the slice panics *)
OrnamentFaults(cs, orn) ==
    Len(orn.Values) # 0 /\ (cs.OrnPos < 0 \/ cs.OrnPos >= Len(orn.Values))

(* an ornament that always stops at its last value *)
ProcessOrnament_NoLoop(cs, orn) ==
    IF Len(orn.Values) = 0 \/ OrnamentFaults(cs, orn) THEN cs
    ELSE [cs EXCEPT !.Note = Int8(cs.BaseNote + orn.Values[cs.OrnPos + 1]),
                    !.Frequency = NoteToFreq(Int8(cs.BaseNote + orn.Values[cs.OrnPos + 1])),
                    !.Oscillator = SetFrequency(cs.Oscillator,
                                       NoteToFreq(Int8(cs.BaseNote + orn.Values[cs.OrnPos + 1]))),
                    !.OrnTick = 0,
                    !.OrnPos = Min(cs.OrnPos + 1, Len(orn.Values) - 1)]

ProcessOrnament(cs, orn) ==
    IF Len(orn.Values) = 0 \/ OrnamentFaults(cs, orn) THEN cs
    ELSE LET offset == orn.Values[cs.OrnPos + 1]
             note   == Int8(cs.BaseNote + offset)
             f      == NoteToFreq(note)
             next   == cs.OrnPos + 1
             pos    == IF next >= Len(orn.Values)
                       THEN IF orn.Loop >= 0 THEN orn.Loop ELSE Len(orn.Values) - 1
                       ELSE next
         IN [cs EXCEPT !.Note = note, !.Frequency = f,
                       !.Oscillator = SetFrequency(cs.Oscillator, f),
                       !.OrnTick = 0, !.OrnPos = pos]

(* GenerateSample: the channel after the call and the value returned *)
Voiced(cs, r) == [cs |-> [cs EXCEPT !.Oscillator = r.osc], val |-> r.val * cs.Volume]

(* a voice sampled whether it is active or not *)
GenerateSample_Always(cs, rate) == Voiced(cs, OscSample(cs.Oscillator, rate))

GenerateSample(cs, rate) ==
    IF ~cs.Active \/ cs.Volume <= 0
    THEN [cs |-> cs, val |-> 0]
    ELSE Voiced(cs, OscSample(cs.Oscillator, rate))

-----------------------------------------------------------------------------
(* Player (pkg/audio).  A player state s is the record of the Player's     *)
(* fields, with the song it points to and the observation fields:           *)
(*   panic    a Go run-time panic (index out of range) ended the program    *)
(*   buffer   the samples written by the last GenerateSamples call          *)
(*   contrib  per channel, its value added to the mix for the last sample   *)
(*   rowLog   the rows whose cells ProcessRow processed since the last      *)
(*            Play, SetPosition or pattern end                              *)
(*   sinceRow the sample periods spent playing in the current row visit     *)
(*   rowLen   the sample periods the last completed row visit took (0: none) *)

(* UpdateTiming: int(SampleRate / (Tempo * 2 / 5)) *)
TimingOf(rate, tempo) == FloorDiv(rate * 5, tempo * 2)

UpdateTiming(s) == [s EXCEPT !.TickSamples = TimingOf(s.Song.SampleRate, s.Song.Tempo)]

NewPlayer(song) ==
    UpdateTiming(
    [Song |-> song,
     Channels |-> [i \in 1..song.Channels |->
        IF i <= Len(song.ChanConfig)
        THEN [NewChannelState EXCEPT
                !.Oscillator = NewOscillator(song.ChanConfig[i].Generator),
                !.EchoSource = song.ChanConfig[i].EchoSource,
                !.EchoDelay  = song.ChanConfig[i].EchoDelay,
                !.EchoVolMod = song.ChanConfig[i].EchoVolume]
        ELSE NewChannelState],
     Playing |-> FALSE, Position |-> 0, Pattern |-> 0, Row |-> 0, Tick |-> 0,
     TickSamples |-> 0, TickCounter |-> 0,
     EchoBuffers |-> [i \in 1..song.Channels |-> <<>>],
     EchoPos |-> [i \in 1..song.Channels |-> 0],
     panic |-> FALSE, buffer |-> <<>>,
     contrib |-> [i \in 1..song.Channels |-> 0],
     rowLog |-> <<>>, sinceRow |-> 0, rowLen |-> 0])

(* length of every echo ring buffer: make([]float64, song.SampleRate) *)
EchoLen(s) == s.Song.SampleRate

(* ring buffer read and write on the function of non-zero entries *)
BufGet(b, i) == IF i \in DOMAIN b THEN b[i] ELSE 0
BufPut(b, i, v) ==
    IF v = 0 THEN [j \in (DOMAIN b) \ {i} |-> b[j]]
    ELSE [j \in (DOMAIN b) \cup {i} |-> IF j = i THEN v ELSE b[j]]

(* a tempo change that leaves the samples per tick as they were *)
SetSpeedOrTempo_Stale(s, param) ==
    IF param < 32
    THEN [s EXCEPT !.Song.Speed = param]
    ELSE [s EXCEPT !.Song.Tempo = param]

(* processEffect, case FxSpeed: below 32 the parameter is the speed,       *)
(* from 32 on it is the tempo and the timing is recomputed                  *)
SetSpeedOrTempo(s, param) ==
    IF param < 32
    THEN [s EXCEPT !.Song.Speed = param]
    ELSE UpdateTiming([s EXCEPT !.Song.Tempo = param])

(* processEffect for Go channel index ch (0-based) *)
(* a set-volume effect that reaches every channel *)
processEffect_AllChannels(s, ch, fx) ==
    IF fx.Type = 0 /\ fx.Param = 0 THEN s
    ELSE LET cs == s.Channels[ch + 1]
             hi == (fx.Param \div 16) % 16
             lo == fx.Param % 16
         IN CASE fx.Type = FxArpeggio ->
                   IF fx.Param # 0
                   THEN [s EXCEPT !.Channels[ch + 1].BaseNote = cs.Note]
                   ELSE s
              [] fx.Type = FxSlideUp ->
                   [s EXCEPT !.Channels[ch + 1].SlideSpeed = fx.Param * 4000]
              [] fx.Type = FxSlideDown ->
                   [s EXCEPT !.Channels[ch + 1].SlideSpeed = 0 - fx.Param * 4000]
              [] fx.Type = FxPortamento ->
                   [s EXCEPT !.Channels[ch + 1].PortaSpeed = fx.Param * 4000]
              [] fx.Type = FxVibrato ->
                   [s EXCEPT !.Channels[ch + 1].VibSpeed = hi,
                             !.Channels[ch + 1].VibDepth = lo]
              [] fx.Type = FxVolume ->
                   IF fx.Param <= 64
                   THEN [s EXCEPT !.Channels = [c \in DOMAIN s.Channels |->
                              [s.Channels[c] EXCEPT !.TargetVol = VolOf64(fx.Param),
                                                    !.Volume = VolOf64(fx.Param)]]]
                   ELSE s
              [] fx.Type = FxSpeed -> SetSpeedOrTempo(s, fx.Param)
              [] fx.Type = FxOrnament ->
                   IF fx.Param < Len(s.Song.Ornaments)
                   THEN [s EXCEPT !.Channels[ch + 1].Ornament = fx.Param,
                                  !.Channels[ch + 1].OrnPos = 0,
                                  !.Channels[ch + 1].OrnTick = 0]
                   ELSE s
              [] fx.Type = FxEcho ->
                   [s EXCEPT !.Channels[ch + 1].EchoSource = hi,
                             !.Channels[ch + 1].EchoDelay = lo]
              [] fx.Type = FxDuty ->
                   [s EXCEPT !.Channels[ch + 1].Oscillator =
                                 SetDuty(cs.Oscillator, DutyOf255(fx.Param))]
              [] OTHER -> s

processEffect(s, ch, fx) ==
    IF fx.Type = 0 /\ fx.Param = 0 THEN s
    ELSE LET cs == s.Channels[ch + 1]
             hi == (fx.Param \div 16) % 16
             lo == fx.Param % 16
         IN CASE fx.Type = FxArpeggio ->
                   IF fx.Param # 0
                   THEN [s EXCEPT !.Channels[ch + 1].BaseNote = cs.Note]
                   ELSE s
              [] fx.Type = FxSlideUp ->
                   [s EXCEPT !.Channels[ch + 1].SlideSpeed = fx.Param * 4000]
              [] fx.Type = FxSlideDown ->
                   [s EXCEPT !.Channels[ch + 1].SlideSpeed = 0 - fx.Param * 4000]
              [] fx.Type = FxPortamento ->
                   [s EXCEPT !.Channels[ch + 1].PortaSpeed = fx.Param * 4000]
              [] fx.Type = FxVibrato ->
                   [s EXCEPT !.Channels[ch + 1].VibSpeed = hi,
                             !.Channels[ch + 1].VibDepth = lo]
              [] fx.Type = FxVolume ->
                   IF fx.Param <= 64
                   THEN [s EXCEPT !.Channels[ch + 1].TargetVol = VolOf64(fx.Param),
                                  !.Channels[ch + 1].Volume = VolOf64(fx.Param)]
                   ELSE s
              [] fx.Type = FxSpeed -> SetSpeedOrTempo(s, fx.Param)
              [] fx.Type = FxOrnament ->
                   IF fx.Param < Len(s.Song.Ornaments)
                   THEN [s EXCEPT !.Channels[ch + 1].Ornament = fx.Param,
                                  !.Channels[ch + 1].OrnPos = 0,
                                  !.Channels[ch + 1].OrnTick = 0]
                   ELSE s
              [] fx.Type = FxEcho ->
                   [s EXCEPT !.Channels[ch + 1].EchoSource = hi,
                             !.Channels[ch + 1].EchoDelay = lo]
              [] fx.Type = FxDuty ->
                   [s EXCEPT !.Channels[ch + 1].Oscillator =
                                 SetDuty(cs.Oscillator, DutyOf255(fx.Param))]
              [] OTHER -> s

(* the body of ProcessRow's channel loop for one cell *)
(* a cell whose effect is dispatched only when the cell triggers a note *)
ProcessCell_EffectOnNote(s, ch, note) ==
    LET cs == s.Channels[ch + 1]
        instNum == note.Instrument - 1
    IN IF note.Pitch = -2
       THEN [s EXCEPT !.Channels[ch + 1] = NoteOff(cs)]
       ELSE IF note.Pitch >= 0
       THEN processEffect(
              IF instNum >= 0 /\ instNum < Len(s.Song.Instruments)
              THEN [s EXCEPT !.Channels[ch + 1] =
                       TriggerNote([cs EXCEPT !.Instrument = instNum], note.Pitch,
                                   Ref(s.Song.Instruments[instNum + 1]), note.Volume)]
              ELSE IF cs.Instrument >= 0 /\ cs.Instrument < Len(s.Song.Instruments)
              THEN [s EXCEPT !.Channels[ch + 1] =
                       TriggerNote(cs, note.Pitch,
                                   Ref(s.Song.Instruments[cs.Instrument + 1]), note.Volume)]
              ELSE [s EXCEPT !.Channels[ch + 1] =
                       TriggerNote(cs, note.Pitch, Nil, note.Volume)],
              ch, note.Effect)
       ELSE s

ProcessCell(s, ch, note) ==
    LET cs == s.Channels[ch + 1]
        instNum == note.Instrument - 1
        s1 == IF note.Pitch = -2
              THEN [s EXCEPT !.Channels[ch + 1] = NoteOff(cs)]
              ELSE IF note.Pitch >= 0
              THEN IF instNum >= 0 /\ instNum < Len(s.Song.Instruments)
                   THEN [s EXCEPT !.Channels[ch + 1] =
                            TriggerNote([cs EXCEPT !.Instrument = instNum], note.Pitch,
                                        Ref(s.Song.Instruments[instNum + 1]), note.Volume)]
                   ELSE IF cs.Instrument >= 0 /\ cs.Instrument < Len(s.Song.Instruments)
                   THEN [s EXCEPT !.Channels[ch + 1] =
                            TriggerNote(cs, note.Pitch,
                                        Ref(s.Song.Instruments[cs.Instrument + 1]), note.Volume)]
                   ELSE [s EXCEPT !.Channels[ch + 1] =
                            TriggerNote(cs, note.Pitch, Nil, note.Volume)]
              ELSE s
    IN processEffect(s1, ch, note.Effect)

RECURSIVE ProcessRowFrom(_, _)
ProcessRowFrom(s, ch) ==
    LET cells == s.Song.Patterns[s.Pattern + 1].Notes[s.Row + 1]
    IN IF ch < s.Song.Channels /\ ch < Len(cells)
       THEN ProcessRowFrom(ProcessCell(s, ch, cells[ch + 1]), ch + 1)
       ELSE s

(* ProcessRow: a negative row index is an out-of-range access *)
ProcessRow(s) ==
    IF s.panic THEN s
    ELSE IF s.Pattern >= Len(s.Song.Patterns) THEN s
    ELSE IF s.Row >= s.Song.Patterns[s.Pattern + 1].Rows THEN s
    ELSE IF s.Row < 0 \/ s.Row >= Len(s.Song.Patterns[s.Pattern + 1].Notes)
         THEN [s EXCEPT !.panic = TRUE]
    ELSE ProcessRowFrom([s EXCEPT !.rowLog = Append(s.rowLog, s.Row)], 0)

(* vibOffset: float64(int(pos*256)&255 - 128) / 128; VibPos is kept in     *)
(* units of 1/2560, modulo 1.0, so that a step of VibSpeed*0.1 is exact;    *)
(* the value returned is in units of 1/128                                  *)
VibOne == 256 * 10
vibOffset(pos) == ((pos \div 10) % 256) - 128

(* ProcessTick, the steps of its channel loop for an active channel *)
TickOrnament(s, cs) ==
    IF cs.Ornament > 0 /\ cs.Ornament <= Len(s.Song.Ornaments)
    THEN ProcessOrnament(cs, s.Song.Ornaments[cs.Ornament])
    ELSE cs

(* vibrato: depth*0.5*(1+0.5*w/128) percent of the base frequency *)
TickVibrato(cs) ==
    LET vp == (cs.VibPos + cs.VibSpeed * 256) % VibOne
        w  == vibOffset(vp)
        bf == NoteToFreq(cs.BaseNote)
    IN IF cs.VibDepth > 0
       THEN [cs EXCEPT !.VibPos = vp,
                       !.Oscillator = SetFrequency(cs.Oscillator,
                           bf + FloorDiv((bf \div 100) * cs.VibDepth * (256 + w), 512))]
       ELSE cs

(* slide, clamped to [20 Hz, 20000 Hz] *)
(* a slide that is not clamped *)
TickSlide_Unclamped(cs) ==
    IF cs.SlideSpeed # 0
    THEN [cs EXCEPT !.Frequency = cs.Frequency + cs.SlideSpeed,
                    !.Oscillator = SetFrequency(cs.Oscillator, cs.Frequency + cs.SlideSpeed)]
    ELSE cs

TickSlide(cs) ==
    LET sf == Min(Max(cs.Frequency + cs.SlideSpeed, 20000), 20000000)
    IN IF cs.SlideSpeed # 0
       THEN [cs EXCEPT !.Frequency = sf, !.Oscillator = SetFrequency(cs.Oscillator, sf)]
       ELSE cs

TickPortamento(cs) ==
    LET pf == IF cs.Frequency < cs.PortaTarget
              THEN Min(cs.Frequency + cs.PortaSpeed, cs.PortaTarget)
              ELSE IF cs.Frequency > cs.PortaTarget
              THEN Max(cs.Frequency - cs.PortaSpeed, cs.PortaTarget)
              ELSE cs.Frequency
    IN IF cs.PortaSpeed > 0 /\ cs.PortaTarget > 0
       THEN [cs EXCEPT !.Frequency = pf, !.Oscillator = SetFrequency(cs.Oscillator, pf)]
       ELSE cs

TickEnvelope(s, cs) ==
    ProcessEnvelope(cs, IF cs.Instrument >= 0 /\ cs.Instrument < Len(s.Song.Instruments)
                        THEN Ref(s.Song.Instruments[cs.Instrument + 1].Envelope)
                        ELSE Nil)

TickChannel(s, cs) ==
    TickEnvelope(s, TickPortamento(TickSlide(TickVibrato(TickOrnament(s, cs)))))

(* does the ornament step of this channel read outside the value slice *)
TickFaults(s, cs) ==
    /\ cs.Ornament > 0
    /\ cs.Ornament <= Len(s.Song.Ornaments)
    /\ OrnamentFaults(cs, s.Song.Ornaments[cs.Ornament])

RECURSIVE ProcessTickFrom(_, _)
ProcessTickFrom(s, ch) ==
    IF s.panic \/ ch >= s.Song.Channels THEN s
    ELSE LET cs == s.Channels[ch + 1]
         IN IF ~cs.Active THEN ProcessTickFrom(s, ch + 1)
            ELSE IF TickFaults(s, cs) THEN [s EXCEPT !.panic = TRUE]
            ELSE ProcessTickFrom([s EXCEPT !.Channels[ch + 1] = TickChannel(s, cs)], ch + 1)

ProcessTick(s) == ProcessTickFrom(s, 0)

-----------------------------------------------------------------------------
(* The scheduler: tick, row and order advance *)

(* a tick boundary recognised one sample late *)
TickDue_Late(s) == s.TickCounter > s.TickSamples

(* the tick boundary test of the per-sample counter *)
TickDue(s) == s.TickCounter >= s.TickSamples

(* the row boundary test of the tick counter *)
RowDue(s) == s.Tick >= s.Song.Speed

(* an order advance that stays where it is *)
NextPosition_Stay(s, pos) == pos

(* the order position after p: p+1, wrapping to 0 after the last entry *)
NextPosition(s, pos) == IF pos + 1 >= Len(s.Song.Order) THEN 0 ELSE pos + 1

(* after Row++: at the end of the current pattern go to the next order    *)
(* position and re-resolve Pattern; Order[Position] outside the list panics *)
PatternEnd(s) ==
    IF s.Pattern < Len(s.Song.Patterns) /\ s.Row >= s.Song.Patterns[s.Pattern + 1].Rows
    THEN LET pos == NextPosition(s, s.Position)
         IN IF pos < 0 \/ pos >= Len(s.Song.Order)
            THEN [s EXCEPT !.Row = 0, !.Position = pos, !.panic = TRUE]
            ELSE [s EXCEPT !.Row = 0, !.Position = pos,
                           !.Pattern = s.Song.Order[pos + 1], !.rowLog = <<>>]
    ELSE s

(* Tick++ and, when the row is over, Row++ *)
TickIncrement(s) ==
    LET s1 == [s EXCEPT !.Tick = s.Tick + 1]
    IN IF s1.panic THEN s1
       ELSE IF RowDue(s1)
       THEN PatternEnd([s1 EXCEPT !.Tick = 0, !.Row = s1.Row + 1,
                                  !.rowLen = s1.sinceRow, !.sinceRow = 0])
       ELSE s1

(* GenerateSamples, the "if p.Playing" part of one loop iteration *)
TickAdvance(s) ==
    LET s1 == [s EXCEPT !.TickCounter = s.TickCounter + 1, !.sinceRow = s.sinceRow + 1]
    IN IF TickDue(s1)
       THEN LET s2 == [s1 EXCEPT !.TickCounter = 0]
                s3 == IF s2.Tick = 0 THEN ProcessRow(s2) ELSE s2
            IN TickIncrement(ProcessTick(s3))
       ELSE s1

(* AdvanceTime, one iteration of its loop over the elapsed samples *)
TickThenRow(s) ==
    IF ~s.panic /\ RowDue([s EXCEPT !.Tick = s.Tick + 1])
    THEN ProcessRow(TickIncrement(s))
    ELSE TickIncrement(s)

TimeStep(s) ==
    LET s1 == [s EXCEPT !.TickCounter = s.TickCounter + 1, !.sinceRow = s.sinceRow + 1]
    IN IF TickDue(s1)
       THEN TickThenRow(ProcessTick([s1 EXCEPT !.TickCounter = 0]))
       ELSE s1

-----------------------------------------------------------------------------
(* The sample renderer and the echo bus *)

(* channel volume scaling of one voice sample *)
ChannelScale(s, ch, chSample) ==
    IF ch < Len(s.Song.ChanConfig) /\ ~s.Song.ChanConfig[ch + 1].Muted
    THEN FloorDiv(chSample * s.Song.ChanConfig[ch + 1].Volume, 64)
    ELSE chSample

(* delay in samples of an echo *)
DelaySamples(s, cs) == cs.EchoDelay * s.TickSamples * s.Song.Speed

(* the ring buffer index read for an echo; negative when the delay exceeds *)
(* the write position plus the buffer length                                *)
EchoIdx(s, cs) ==
    GoMod(s.EchoPos[cs.EchoSource + 1] - DelaySamples(s, cs) + EchoLen(s), EchoLen(s))

(* the echo sample scaled by 1 + EchoVolMod *)
EchoScale(v, volMod) == FloorDiv(v * (64 + volMod), 64)

(* the mixing loop for one channel: the scaled voice sample is stored in  *)
(* the channel's ring buffer and the write position advances               *)
StoreSample(s, ch, cs, scaled) ==
    [s EXCEPT !.Channels[ch + 1] = cs,
              !.EchoBuffers[ch + 1] = BufPut(@, s.EchoPos[ch + 1], scaled),
              !.EchoPos[ch + 1] = (@ + 1) % EchoLen(s),
              !.contrib[ch + 1] = scaled]

(* an echo that is written back into the channel's own ring buffer *)
AddEcho_Feedback(s, ch) ==
    LET cs == s.Channels[ch + 1]
    IN IF cs.EchoSource >= 0 /\ cs.EchoSource < Len(s.Channels) /\ cs.EchoDelay > 0
       THEN IF EchoIdx(s, cs) < 0
            THEN [s EXCEPT !.panic = TRUE]
            ELSE [s EXCEPT !.contrib[ch + 1] = @ +
                     EchoScale(BufGet(s.EchoBuffers[cs.EchoSource + 1], EchoIdx(s, cs)),
                               cs.EchoVolMod),
                           !.EchoBuffers[ch + 1] =
                               BufPut(@, (s.EchoPos[ch + 1] - 1) % EchoLen(s),
                                      s.contrib[ch + 1] +
                                      EchoScale(BufGet(s.EchoBuffers[cs.EchoSource + 1],
                                                       EchoIdx(s, cs)), cs.EchoVolMod))]
       ELSE s

(* then the echo of the source channel is added *)
AddEcho(s, ch) ==
    LET cs == s.Channels[ch + 1]
    IN IF cs.EchoSource >= 0 /\ cs.EchoSource < Len(s.Channels) /\ cs.EchoDelay > 0
       THEN IF EchoIdx(s, cs) < 0
            THEN [s EXCEPT !.panic = TRUE]
            ELSE [s EXCEPT !.contrib[ch + 1] = @ +
                     EchoScale(BufGet(s.EchoBuffers[cs.EchoSource + 1], EchoIdx(s, cs)),
                               cs.EchoVolMod)]
       ELSE s

VoiceSample(s, ch, r) == StoreSample(s, ch, r.cs, ChannelScale(s, ch, r.val))

RenderChannel(s, ch) ==
    AddEcho(VoiceSample(s, ch, GenerateSample(s.Channels[ch + 1], s.Song.SampleRate)), ch)

RECURSIVE RenderFrom(_, _)
RenderFrom(s, ch) ==
    IF s.panic \/ ch >= Len(s.Channels) THEN s
    ELSE RenderFrom(RenderChannel(s, ch), ch + 1)

RECURSIVE SumSeq(_, _)
SumSeq(q, i) == IF i > Len(q) THEN 0 ELSE q[i] + SumSeq(q, i + 1)

(* 16 * sqrt(n), rounded down *)
Sqrt16(n) == CHOOSE r \in 0..(16 * n) : r * r <= 256 * n /\ (r + 1) * (r + 1) > 256 * n

SampleOne == AmpOne * VolOne

(* tanh is replaced by the saturating x / (1 + |x|), computed in         *)
(* thousandths                                                              *)
Tanh(x) ==
    LET milli == SampleOne \div 1000
        a == (IF x < 0 THEN 0 - x ELSE x) \div milli
        r == milli * ((1000 * a) \div (1000 + a))
    IN IF x < 0 THEN 0 - r ELSE r

(* gain staging by 1/sqrt(channels), then the soft limiter above 0.9 *)
MixDown(sum, numCh) ==
    LET x  == IF numCh > 1 THEN FloorDiv(sum * 16, Sqrt16(numCh)) ELSE sum
        hi == (9 * SampleOne) \div 10
    IN IF x > hi THEN hi + FloorDiv(Tanh((x - hi) * 10), 10)
       ELSE IF x < 0 - hi THEN FloorDiv(Tanh((x + hi) * 10), 10) - hi
       ELSE x

(* one iteration of GenerateSamples' loop: one output sample *)
WriteSample(s) ==
    IF s.panic THEN s
    ELSE [s EXCEPT !.buffer = Append(@, MixDown(SumSeq(s.contrib, 1), Len(s.Channels)))]

(* a loop iteration that advances the scheduler whether playing or not *)
SampleStep_Always(s) == WriteSample(RenderFrom(TickAdvance(s), 0))

SampleStep(s) == WriteSample(RenderFrom(IF s.Playing THEN TickAdvance(s) ELSE s, 0))

RECURSIVE GenLoop(_, _)
GenLoop(s, n) == IF n = 0 \/ s.panic THEN s ELSE GenLoop(SampleStep(s), n - 1)

(* a call that starts its tick count afresh *)
GenerateSamples_Restart(s, n) == GenLoop([s EXCEPT !.buffer = <<>>, !.TickCounter = 0], n)

(* GenerateSamples(buffer) with len(buffer) = n *)
GenerateSamples(s, n) == GenLoop([s EXCEPT !.buffer = <<>>], n)

RECURSIVE TimeLoop(_, _)
TimeLoop(s, n) == IF n = 0 \/ s.panic THEN s ELSE TimeLoop(TimeStep(s), n - 1)

(* AdvanceTime when samplesElapsed sample periods of wall-clock time passed *)
AdvanceTime(s, samplesElapsed) == IF ~s.Playing THEN s ELSE TimeLoop(s, samplesElapsed)

(* Play: start playing and process the current row at once *)
Play(s) == ProcessRow([s EXCEPT !.Playing = TRUE, !.rowLog = <<>>])

(* a stop that rewinds to the start of the pattern *)
Stop_Rewind(s) ==
    [s EXCEPT !.Playing = FALSE, !.Row = 0, !.Tick = 0, !.TickCounter = 0,
              !.Channels = [i \in DOMAIN s.Channels |->
                               [s.Channels[i] EXCEPT !.Active = FALSE, !.Volume = 0]]]

(* a stop that leaves the voices sounding *)
Stop_KeepVoices(s) == [s EXCEPT !.Playing = FALSE]

(* Stop: stop playing and silence every voice *)
Stop(s) ==
    [s EXCEPT !.Playing = FALSE,
              !.Channels = [i \in DOMAIN s.Channels |->
                               [s.Channels[i] EXCEPT !.Active = FALSE, !.Volume = 0]]]

(* SetPosition; Order[pos] with pos negative is an out-of-range access *)
SetPosition(s, pos, row) ==
    LET s1 == [s EXCEPT !.Position = pos, !.Row = row, !.Tick = 0, !.TickCounter = 0,
                        !.rowLog = <<>>, !.sinceRow = 0]
    IN IF pos < 0 THEN [s1 EXCEPT !.panic = TRUE]
       ELSE IF pos < Len(s.Song.Order) THEN [s1 EXCEPT !.Pattern = s.Song.Order[pos + 1]]
       ELSE s1

GetPlaybackInfo(s) == <<s.Position, s.Pattern, s.Row, s.Tick, s.Playing>>

-----------------------------------------------------------------------------
(* Songs the player is constructed for *)

(* envelope-less plain voices: attack 0, decay 0, full sustain *)
InstSaw == Inst(GenSawtooth, Env(0, 0, 64, 2), 0, 64, 0)
InstSqu == Inst(GenSquare, Env(1, 1, 32, 0), 0, 32, 128)
InstTri == Inst(GenTriangle, Env(0, 0, 64, 0), 1, 48, 0)
OrnArp  == Orn(0, <<0, 3>>)

(* sample rate of the small songs: 2 samples per tick at tempo 32 *)
SmallRate == 26

(* two channels, channel 1 echoes channel 0 after one row *)
SongEchoUp ==
    MkSong(2, 32, SmallRate, <<InstSaw, InstSqu>>, <<OrnArp>>,
           <<PatternOf(<< <<NoteOn(0, 1), EmptyNote>>,
                          <<OffNote, NoteOn(4, 2)>> >>),
             PatternOf(<< <<NoteOn(2, 1), OffNote>> >>)>>,
           <<0, 1>>,
           <<DefaultChan(GenSawtooth), ChanCfg(GenSquare, 32, FALSE, 0, 1, -32)>>)

(* two channels, channel 0 echoes channel 1 after one row; channel 1 muted *)
SongEchoDown ==
    MkSong(2, 32, SmallRate, <<InstSaw, InstSqu>>, <<OrnArp>>,
           <<PatternOf(<< <<EmptyNote, NoteOn(0, 1)>>,
                          <<EmptyNote, EmptyNote>> >>)>>,
           <<0>>,
           <<ChanCfg(GenSawtooth, 64, FALSE, 1, 1, 0), ChanCfg(GenSquare, 48, TRUE, -1, 0, 0)>>)

(* one channel; set-speed-or-tempo effects: speed 3, tempo 65, speed 0 *)
SongSpeedFx ==
    MkSong(2, 32, SmallRate, <<InstTri>>, <<OrnArp>>,
           <<PatternOf(<< <<NoteFx(5, 1, Fx(FxSpeed, 3))>>,
                          <<FxOnly(Fx(FxSpeed, 65))>> >>),
             PatternOf(<< <<FxOnly(Fx(FxSpeed, 0))>>,
                          <<OffNote>> >>)>>,
           <<0, 1>>,
           <<DefaultChan(GenTriangle)>>)

(* the default song's timing: speed 6, tempo 125, 44100 Hz; its cells     *)
(* leave the voice silent                                                   *)
SongDefaultTiming ==
    MkSong(6, 125, 44100, <<InstSaw>>, <<OrnArp>>,
           <<PatternOf(<< <<[OffNote EXCEPT !.Effect = Fx(FxVolume, 64)]>>,
                          <<FxOnly(Fx(FxDuty, 128))>> >>)>>,
           <<0>>,
           <<DefaultChan(GenTriangle)>>)

(* Order = [0] and a 64-row pattern 0 as NewSong creates it, with notes on *)
(* a few rows                                                               *)
LoopRows == 64
SongLoop ==
    MkSong(2, 32, SmallRate, <<InstSaw>>, <<OrnArp>>,
           <<[NewPattern(LoopRows, 1) EXCEPT !.Notes[1][1] = NoteOn(0, 1),
                                             !.Notes[2][1] = OffNote,
                                             !.Notes[LoopRows][1] = NoteOn(3, 1)]>>,
           <<0>>,
           <<DefaultChan(GenSawtooth)>>)

-----------------------------------------------------------------------------
(* The state machine *)

Player ==
    [Song |-> Song, Channels |-> Channels, Playing |-> Playing, Position |-> Position,
     Pattern |-> Pattern, Row |-> Row, Tick |-> Tick, TickSamples |-> TickSamples,
     TickCounter |-> TickCounter, EchoBuffers |-> EchoBuffers, EchoPos |-> EchoPos,
     panic |-> panic, buffer |-> buffer, contrib |-> contrib, rowLog |-> rowLog,
     sinceRow |-> sinceRow, rowLen |-> rowLen]

StateIs(s) ==
    /\ Song = s.Song /\ Channels = s.Channels /\ Playing = s.Playing
    /\ Position = s.Position /\ Pattern = s.Pattern /\ Row = s.Row /\ Tick = s.Tick
    /\ TickSamples = s.TickSamples /\ TickCounter = s.TickCounter
    /\ EchoBuffers = s.EchoBuffers /\ EchoPos = s.EchoPos
    /\ panic = s.panic /\ buffer = s.buffer /\ contrib = s.contrib
    /\ rowLog = s.rowLog /\ sinceRow = s.sinceRow /\ rowLen = s.rowLen

Becomes(s) ==
    /\ Song' = s.Song /\ Channels' = s.Channels /\ Playing' = s.Playing
    /\ Position' = s.Position /\ Pattern' = s.Pattern /\ Row' = s.Row /\ Tick' = s.Tick
    /\ TickSamples' = s.TickSamples /\ TickCounter' = s.TickCounter
    /\ EchoBuffers' = s.EchoBuffers /\ EchoPos' = s.EchoPos
    /\ panic' = s.panic /\ buffer' = s.buffer /\ contrib' = s.contrib
    /\ rowLog' = s.rowLog /\ sinceRow' = s.sinceRow /\ rowLen' = s.rowLen

(* buffer lengths passed to GenerateSamples *)
MaxBuf == 2
(* sample periods of wall-clock time between two AdvanceTime calls *)
MaxElapsed == 2
(* row arguments passed to SetPosition: 0..MaxSeekRow *)
MaxSeekRow == 1

(* A run is bounded by callsLeft, the control-surface calls still to be    *)
(* made, and samplesLeft, the samples still to be generated (-1: no bound). *)
(* mu is the thread holding Player.mu ("free": nobody), genLeft the samples  *)
(* the generate call in progress has still to write, and info the tuple the *)
(* last GetPlaybackInfo returned.                                           *)
Control ==
    /\ ~panic /\ callsLeft > 0 /\ callsLeft' = callsLeft - 1
    /\ UNCHANGED <<samplesLeft, mu, genLeft>>

(* a method that locks without waiting for the mutex *)
MutexFree_Ignored == TRUE

(* p.mu.Lock() returns: no other thread holds the player's mutex *)
MutexFree == mu = "free"

(* a method of the player called from the control surface: it takes the   *)
(* mutex, runs and releases it                                              *)
Locked == Control /\ MutexFree

CallPlay == Locked /\ UNCHANGED info /\ Becomes(Play(Player))

CallStop == Locked /\ UNCHANGED info /\ Becomes(Stop(Player))

CallGetPlaybackInfo ==
    /\ Locked
    /\ info' = GetPlaybackInfo(Player)
    /\ Becomes(Player)

CallSetPosition ==
    /\ Locked /\ UNCHANGED info
    /\ \E pos \in 0..Len(Song.Order), row \in 0..MaxSeekRow :
          Becomes(SetPosition(Player, pos, row))

CallAdvanceTime ==
    /\ Locked /\ UNCHANGED info
    /\ Playing
    /\ \E e \in 1..MaxElapsed : Becomes(AdvanceTime(Player, e))

(* the audio thread asks for a buffer of one of the given lengths *)
GenerateCall(sizes) ==
    /\ ~panic
    /\ MutexFree
    /\ UNCHANGED <<callsLeft, mu, genLeft, info>>
    /\ \E n \in sizes :
          /\ samplesLeft = -1 \/ n <= samplesLeft
          /\ samplesLeft' = IF samplesLeft = -1 THEN -1 ELSE samplesLeft - n
          /\ Becomes(GenerateSamples(Player, n))

CallGenerateSamples == GenerateCall(1..MaxBuf)

(* the audio thread pulling one sample at a time *)
PullSample == GenerateCall({1})

InitWith(songs, nCalls, nSamples) ==
    /\ callsLeft = nCalls
    /\ samplesLeft = nSamples
    /\ mu = "free"
    /\ genLeft = 0
    /\ info = <<0, 0, 0, 0, FALSE>>
    /\ \E song \in songs : StateIs(NewPlayer(song))

(* The player under its control surface and the audio thread *)
MainSongs == {SongEchoUp, SongEchoDown, SongSpeedFx}
MaxCalls == 2
MaxSamples == 9

Init == InitWith(MainSongs, MaxCalls, MaxSamples)

Next ==
    \/ CallPlay
    \/ CallStop
    \/ CallSetPosition
    \/ CallGenerateSamples
    \/ CallAdvanceTime

Spec == Init /\ [][Next]_vars

(* The timing scenario: construct, Play, and the audio thread pulls samples *)
TimingSongs == {SongDefaultTiming, SongEchoDown}
TimingSamples == 10586

InitTiming == InitWith(TimingSongs, 1, TimingSamples)

NextTiming ==
    \/ CallPlay
    \/ Playing /\ CallGenerateSamples

SpecTiming == InitTiming /\ [][NextTiming]_vars

(* One pass and more over a single 64-row pattern *)
LoopSamples == 300

InitLoop == InitWith({SongLoop}, 1, LoopSamples)

NextLoop ==
    \/ CallPlay
    \/ CallGenerateSamples

SpecLoop == InitLoop /\ [][NextLoop]_vars

(* Splitting a buffer: seek, Play, and the audio thread pulls buffers *)
SplitCalls == 2
SplitSamples == 5

InitSplit == InitWith(MainSongs, SplitCalls, SplitSamples)

NextSplit ==
    \/ CallPlay
    \/ CallSetPosition
    \/ CallGenerateSamples

SpecSplit == InitSplit /\ [][NextSplit]_vars

(* Endless playback: no bound on the samples; the audio thread pulls one  *)
(* sample per step for as long as the stream is open                        *)
LiveSongs == {SongEchoUp, SongSpeedFx}
LiveCalls == 1

InitLive == InitWith(LiveSongs, LiveCalls, -1)

NextLive ==
    \/ CallPlay
    \/ CallStop
    \/ PullSample

SpecLive == InitLive /\ [][NextLive]_vars

-----------------------------------------------------------------------------
(* The threads: the audio thread inside a generate call, the control      *)
(* surface calling the player, and the editor changing the song             *)

(* one voice with the arpeggio ornament; the order list has two entries *)
SongOrn ==
    MkSong(2, 32, SmallRate, <<InstTri>>, <<OrnArp>>,
           <<PatternOf(<< <<NoteOn(5, 1)>>, <<EmptyNote>> >>)>>,
           <<0, 0>>,
           <<DefaultChan(GenTriangle)>>)

(* an empty order list *)
SongNoOrder ==
    MkSong(2, 32, SmallRate, <<InstSaw>>, <<OrnArp>>,
           <<PatternOf(<< <<NoteOn(0, 1)>> >>)>>,
           <<>>,
           <<DefaultChan(GenSawtooth)>>)

(* references to missing entries: instrument 9 of 1, ornament 7 of 1,     *)
(* an instrument whose default ornament 3 is missing, pattern 5 of 1        *)
SongBadRefs ==
    MkSong(2, 32, SmallRate, <<Inst(GenSquare, Env(0, 0, 64, 0), 3, 64, 0)>>, <<OrnArp>>,
           <<PatternOf(<< <<NoteFx(0, 9, Fx(FxOrnament, 7))>>, <<NoteOn(2, 1)>> >>)>>,
           <<0, 5>>,
           <<DefaultChan(GenSquare)>>)

(* GenerateSamples entered: the audio thread takes the mutex for a buffer *)
BeginGenerate ==
    /\ ~panic
    /\ MutexFree
    /\ genLeft = 0
    /\ \E n \in 1..MaxBuf :
          /\ samplesLeft = -1 \/ n <= samplesLeft
          /\ samplesLeft' = IF samplesLeft = -1 THEN -1 ELSE samplesLeft - n
          /\ genLeft' = n
    /\ mu' = "audio"
    /\ Becomes([Player EXCEPT !.buffer = <<>>])
    /\ UNCHANGED <<callsLeft, info>>

(* one iteration of its loop *)
GenerateStep ==
    /\ ~panic
    /\ mu = "audio"
    /\ genLeft > 0
    /\ genLeft' = genLeft - 1
    /\ Becomes(SampleStep(Player))
    /\ UNCHANGED <<callsLeft, samplesLeft, mu, info>>

(* the deferred Unlock on return *)
EndGenerate ==
    /\ ~panic
    /\ mu = "audio"
    /\ genLeft = 0
    /\ mu' = "free"
    /\ Becomes(Player)
    /\ UNCHANGED <<callsLeft, samplesLeft, genLeft, info>>

(* the editor's changes of the song *)
RemoveAt(q, i) == SubSeq(q, 1, i - 1) \o SubSeq(q, i + 1, Len(q))

(* a removal that takes the last entry too *)
OrderRemove_Any(song, cursor) == [song EXCEPT !.Order = RemoveAt(@, cursor + 1)]

(* handleOrderKey "-": remove the order entry under the cursor *)
OrderRemove(song, cursor) ==
    IF Len(song.Order) > 1
    THEN [song EXCEPT !.Order = RemoveAt(@, cursor + 1)]
    ELSE song

(* handleOrderKey digit: the entry becomes (entry mod 10) * 10 + digit   *)
(* when that names a pattern                                                 *)
OrderSet(song, cursor, digit) ==
    LET newVal == (((song.Order[cursor + 1] % 10) * 10) + digit) % 256
    IN IF newVal < Len(song.Patterns)
       THEN [song EXCEPT !.Order[cursor + 1] = newVal]
       ELSE song

(* handleOrnamentKey "-": remove the last value of the ornament *)
OrnamentRemove(song, cursor) ==
    IF Len(song.Ornaments[cursor + 1].Values) > 1
    THEN [song EXCEPT !.Ornaments[cursor + 1].Values = SubSeq(@, 1, Len(@) - 1)]
    ELSE song

(* handleInstrumentKey "g": cycle the generator *)
InstrumentCycle(song, cursor) ==
    [song EXCEPT !.Instruments[cursor + 1].Generator = (@ + 1) % 5]

(* noteOff: put a note-off into the cell under the cursor *)
CellNoteOff(song, pat, row, ch) ==
    IF row < song.Patterns[pat + 1].Rows /\ ch < Len(song.Patterns[pat + 1].Notes[row + 1])
    THEN [song EXCEPT !.Patterns[pat + 1].Notes[row + 1][ch + 1].Pitch = -2]
    ELSE song

(* an edit is a key handled by the control surface; it writes the song    *)
(* without calling the player                                               *)
Edit(song) ==
    /\ ~panic /\ callsLeft > 0 /\ callsLeft' = callsLeft - 1
    /\ Song' = song
    /\ UNCHANGED <<Channels, Playing, Position, Pattern, Row, Tick, TickSamples,
                   TickCounter, EchoBuffers, EchoPos, panic, buffer, contrib, rowLog,
                   sinceRow, rowLen, samplesLeft, mu, genLeft, info>>

EditOrder == \E cursor \in 0..(Len(Song.Order) - 1) : Edit(OrderRemove(Song, cursor))

EditOrnament == \E cursor \in 0..(Len(Song.Ornaments) - 1) : Edit(OrnamentRemove(Song, cursor))

EditInstrument ==
    \E cursor \in 0..(Len(Song.Instruments) - 1) : Edit(InstrumentCycle(Song, cursor))

EditCell ==
    \E pat \in 0..(Len(Song.Patterns) - 1), row \in 0..MaxSeekRow :
        Edit(CellNoteOff(Song, pat, row, 0))

ThreadSongs == {SongOrn, SongNoOrder, SongBadRefs}
ThreadCalls == 2
ThreadSamples == 5

InitThreads == InitWith(ThreadSongs, ThreadCalls, ThreadSamples)

NextThreads ==
    \/ CallPlay
    \/ CallStop
    \/ CallSetPosition
    \/ CallGetPlaybackInfo
    \/ CallAdvanceTime
    \/ BeginGenerate
    \/ GenerateStep
    \/ EndGenerate
    \/ EditOrder
    \/ EditOrnament
    \/ EditInstrument
    \/ EditCell

SpecThreads == InitThreads /\ [][NextThreads]_vars

(* One note at the default timing: pitch 48 with an instrument of attack  *)
(* 0, decay 0, sustain 64, as the editor enters it (volume column empty).    *)
(* The channel's fader is at 0: the voice plays, the ring buffer holds zeros *)
InstLead == Inst(GenSawtooth, Env(0, 0, 64, 0), 0, 48, 0)
InstBass == Inst(GenTriangle, Env(0, 0, 64, 3), 0, 40, 0)
FaderDown(gen) == ChanCfg(gen, 0, FALSE, -1, 0, 0)

SongTrigger ==
    MkSong(6, 125, 44100, <<InstLead>>, <<OrnArp>>,
           <<PatternOf(<< <<NoteOn(48, 1)>>, <<EmptyNote>> >>)>>,
           <<0>>,
           <<FaderDown(GenTriangle)>>)

SongTriggerSecond ==
    MkSong(6, 125, 44100, <<InstLead, InstBass>>, <<OrnArp>>,
           <<PatternOf(<< <<NoteOn(48, 2)>> >>)>>,
           <<0>>,
           <<FaderDown(GenTriangle)>>)

TriggerSongs == {SongTrigger, SongTriggerSecond}
TriggerSamples == 5300

InitTrigger == InitWith(TriggerSongs, 1, TriggerSamples)

NextTrigger ==
    \/ CallPlay
    \/ Playing /\ CallGenerateSamples

SpecTrigger == InitTrigger /\ [][NextTrigger]_vars

(* One note held for a row of ten ticks, for every attack time up to      *)
(* MaxAttack                                                                *)
MaxAttack == 6
SongAttack(a) ==
    MkSong(10, 32, SmallRate, <<Inst(GenSawtooth, Env(a, 2, 32, 0), 0, 48, 0)>>, <<OrnArp>>,
           <<PatternOf(<< <<NoteOn(5, 1)>>, <<EmptyNote>> >>)>>,
           <<0>>,
           <<DefaultChan(GenSawtooth)>>)

AttackSongs == {SongAttack(a) : a \in 0..MaxAttack}
EnvSamples == 16

InitEnvelope == InitWith(AttackSongs, 1, EnvSamples)

NextEnvelope ==
    \/ CallPlay
    \/ Playing /\ CallGenerateSamples

SpecEnvelope == InitEnvelope /\ [][NextEnvelope]_vars

(* One note held for a row of ten ticks, for every ornament of up to       *)
(* MaxOrnLen values and every loop index, -1 (no loop) included             *)
MaxOrnLen == 3
SongOrnament(len, loop) ==
    MkSong(10, 32, SmallRate, <<InstTri>>, <<Orn(loop, [i \in 1..len |-> 3 * (i - 1)])>>,
           <<PatternOf(<< <<NoteOn(5, 1)>>, <<EmptyNote>> >>)>>,
           <<0>>,
           <<DefaultChan(GenTriangle)>>)

OrnamentSongs ==
    UNION {{SongOrnament(len, loop) : loop \in -1..(len - 1)} : len \in 1..MaxOrnLen}
OrnSamples == 16

InitOrnament == InitWith(OrnamentSongs, 1, OrnSamples)

NextOrnament ==
    \/ CallPlay
    \/ Playing /\ CallGenerateSamples

SpecOrnament == InitOrnament /\ [][NextOrnament]_vars

(* A note, its note-off on the next row, and six empty rows, for every     *)
(* release time up to MaxRelease; and the same with no instrument at all,    *)
(* the note carrying its own volume                                          *)
MaxRelease == 2
ReleaseRows(first) ==
    PatternOf(<< <<first>>, <<OffNote>>, <<EmptyNote>>, <<EmptyNote>>,
                 <<EmptyNote>>, <<EmptyNote>>, <<EmptyNote>>, <<EmptyNote>> >>)

SongRelease(r) ==
    MkSong(3, 32, SmallRate, <<Inst(GenSawtooth, Env(0, 0, 64, r), 0, 48, 0)>>, <<OrnArp>>,
           <<ReleaseRows(NoteOn(5, 1))>>,
           <<0>>,
           <<DefaultChan(GenSawtooth)>>)

SongNoInstrument ==
    MkSong(3, 32, SmallRate, <<>>, <<OrnArp>>,
           <<ReleaseRows([NoteOn(5, 1) EXCEPT !.Volume = 40])>>,
           <<0>>,
           <<DefaultChan(GenSawtooth)>>)

ReleaseSongs == {SongRelease(r) : r \in 0..MaxRelease} \cup {SongNoInstrument}
ReleaseSamples == 40

InitRelease == InitWith(ReleaseSongs, 1, ReleaseSamples)

NextRelease ==
    \/ CallPlay
    \/ Playing /\ CallGenerateSamples

SpecRelease == InitRelease /\ [][NextRelease]_vars

(* Two channels of slides, portamento and other effects at 44100 Hz,      *)
(* tempo 255 (432 samples per tick), faders down                        *)
InstPlain == Inst(GenSawtooth, Env(0, 0, 64, 0), 0, 48, 0)

SongSlides ==
    MkSong(4, 255, 44100, <<InstPlain>>, <<OrnArp>>,
           <<PatternOf(<< <<NoteFx(0, 1, Fx(FxSlideDown, 3)), NoteFx(95, 1, Fx(FxSlideUp, 255))>>,
                          <<EmptyNote, FxOnly(Fx(FxVolume, 32))>>,
                          <<FxOnly(Fx(FxSlideUp, 5)), EmptyNote>>,
                          <<NoteOn(48, 1), EmptyNote>>,
                          <<EmptyNote, FxOnly(Fx(FxSlideDown, 255))>>,
                          <<FxOnly(Fx(FxSlideUp, 0)), OffNote>> >>)>>,
           <<0>>,
           <<FaderDown(GenSawtooth), FaderDown(GenTriangle)>>)

SongPorta ==
    MkSong(3, 255, 44100, <<InstPlain>>, <<OrnArp>>,
           <<PatternOf(<< <<NoteFx(48, 1, Fx(FxSlideUp, 2)), NoteFx(50, 1, Fx(FxVibrato, 34))>>,
                          <<FxOnly(Fx(FxSlideUp, 0)), FxOnly(Fx(FxEcho, 1))>>,
                          <<FxOnly(Fx(FxPortamento, 2)), FxOnly(Fx(FxDuty, 64))>>,
                          <<EmptyNote, NoteFx(52, 1, Fx(FxPortamento, 1))>>,
                          <<FxOnly(Fx(FxSpeed, 3)), FxOnly(Fx(FxArpeggio, 55))>>,
                          <<OffNote, EmptyNote>> >>)>>,
           <<0>>,
           <<FaderDown(GenSawtooth), FaderDown(GenTriangle)>>)

EffectSongs == {SongSlides, SongPorta}
EffectSamples == 10300

InitEffects == InitWith(EffectSongs, 1, EffectSamples)

NextEffects ==
    \/ CallPlay
    \/ Playing /\ CallGenerateSamples

SpecEffects == InitEffects /\ [][NextEffects]_vars

(* An oscillator on its own: NewOscillator of any generator, then       *)
(* SetFrequency and Sample calls; the oscillator is that of channel 0 of a   *)
(* one-channel song, the value returned is kept in buffer                    *)
SongOscillator(gen) ==
    MkSong(2, 32, SmallRate, <<InstSaw>>, <<OrnArp>>,
           <<PatternOf(<< <<EmptyNote>> >>)>>, <<0>>, <<DefaultChan(gen)>>)

(* the five waveform kinds and a generator value that names none *)
OscillatorSongs == {SongOscillator(gen) : gen \in GenTriangle..(GenNoise + 1)}

(* frequencies in mHz *)
OscFrequencies == {-440000, -1, 0, 1, 3500, 20000}
OscCalls == 2
OscSamples == 3

OscSetFrequency ==
    /\ Control
    /\ UNCHANGED info
    /\ \E f \in OscFrequencies :
          Becomes([Player EXCEPT !.Channels[1].Oscillator = SetFrequency(@, f)])

OscCallSample ==
    /\ ~panic
    /\ samplesLeft > 0
    /\ samplesLeft' = samplesLeft - 1
    /\ UNCHANGED <<callsLeft, mu, genLeft, info>>
    /\ \E r \in {OscSample(Channels[1].Oscillator, Song.SampleRate)} :
          Becomes([Player EXCEPT !.Channels[1].Oscillator = r.osc, !.buffer = <<r.val>>])

InitOscillator == InitWith(OscillatorSongs, OscCalls, OscSamples)

NextOscillator ==
    \/ OscSetFrequency
    \/ OscCallSample

SpecOscillator == InitOscillator /\ [][NextOscillator]_vars

(* Echo delays: channel 1 echoes channel 0 after delay rows, for every     *)
(* delay a cell's echo effect can name (the low nibble of its parameter),    *)
(* at 44100 Hz with the slowest, the default and the fastest speed and tempo *)
MaxEchoDelay == 15

SongEchoDelay(delay, speed, tempo) ==
    MkSong(speed, tempo, 44100, <<InstPlain>>, <<OrnArp>>,
           <<PatternOf(<< <<NoteOn(48, 1), EmptyNote>>,
                          <<EmptyNote, NoteOn(36, 1)>> >>)>>,
           <<0>>,
           <<FaderDown(GenSawtooth), ChanCfg(GenTriangle, 0, FALSE, 0, delay, -16)>>)

EchoDelaySongs ==
    {SongEchoDelay(delay, speed, tempo) :
        delay \in 1..MaxEchoDelay, speed \in {1, 6, 31}, tempo \in {32, 125, 255}}

EchoDelaySamples == 3

InitEchoDelay == InitWith(EchoDelaySongs, 1, EchoDelaySamples)

NextEchoDelay ==
    \/ CallPlay
    \/ CallGenerateSamples

SpecEchoDelay == InitEchoDelay /\ [][NextEchoDelay]_vars

(* Echo configurations that close a loop: a channel that echoes itself,   *)
(* and two channels that echo each other; a short note, then silence         *)
SongEchoSelf ==
    MkSong(2, 32, SmallRate, <<InstPlain>>, <<OrnArp>>,
           <<PatternOf(<< <<NoteOn(0, 1)>>, <<OffNote>>, <<EmptyNote>>, <<EmptyNote>>,
                          <<EmptyNote>> >>)>>,
           <<0>>,
           <<ChanCfg(GenSawtooth, 64, FALSE, 0, 1, 0)>>)

SongEchoCycle ==
    MkSong(2, 32, SmallRate, <<InstPlain>>, <<OrnArp>>,
           <<PatternOf(<< <<NoteOn(0, 1), EmptyNote>>, <<OffNote, NoteOn(3, 1)>>,
                          <<EmptyNote, OffNote>>, <<EmptyNote, EmptyNote>>,
                          <<EmptyNote, EmptyNote>> >>)>>,
           <<0>>,
           <<ChanCfg(GenSawtooth, 64, FALSE, 1, 1, 0), ChanCfg(GenTriangle, 48, FALSE, 0, 1, -16)>>)

EchoLoopSongs == {SongEchoSelf, SongEchoCycle}
EchoLoopSamples == 60

InitEchoLoop == InitWith(EchoLoopSongs, 1, EchoLoopSamples)

NextEchoLoop ==
    \/ CallPlay
    \/ PullSample

SpecEchoLoop == InitEchoLoop /\ [][NextEchoLoop]_vars

(* Cells of every kind: notes with and without a known instrument,       *)
(* note-offs and empty cells, each with and without an effect, on sounding   *)
(* and on silent voices                                                      *)
InstSoft == Inst(GenTriangle, Env(2, 1, 32, 1), 1, 48, 0)
OrnRise == Orn(-1, <<0, 1, 2>>)

SongCells ==
    MkSong(2, 32, SmallRate, <<InstSqu, InstSoft>>, <<OrnArp, OrnRise>>,
           <<PatternOf(<< <<NoteOn(0, 9), FxOnly(Fx(FxPortamento, 2))>>,
                          <<FxOnly(Fx(FxDuty, 64)), NoteFx(2, 2, Fx(FxOrnament, 2))>>,
                          <<NoteOn(1, 9), [OffNote EXCEPT !.Effect = Fx(FxVibrato, 34)]>>,
                          <<[OffNote EXCEPT !.Effect = Fx(FxOrnament, 1)], NoteOn(3, 9)>>,
                          <<FxOnly(Fx(FxOrnament, 0)), FxOnly(Fx(FxOrnament, 1))>>,
                          <<NoteFx(2, 1, Fx(FxPortamento, 3)), FxOnly(Fx(FxOrnament, 7))>>,
                          <<EmptyNote, OffNote>>,
                          <<OffNote, FxOnly(Fx(FxEcho, 1))>> >>)>>,
           <<0>>,
           <<DefaultChan(GenSawtooth), DefaultChan(GenTriangle)>>)

CellSongs == {SongCells, SongBadRefs}
CellCalls == 2
CellSamples == 34

InitCells == InitWith(CellSongs, CellCalls, CellSamples)

NextCells ==
    \/ CallPlay
    \/ CallStop
    \/ PullSample

SpecCells == InitCells /\ [][NextCells]_vars

(* Order lists over two patterns: the player with its control surface,    *)
(* the audio thread, and the order editor typing a digit                     *)
SongOrder(order) ==
    MkSong(2, 32, SmallRate, <<InstSaw>>, <<OrnArp>>,
           <<PatternOf(<< <<NoteOn(0, 1)>>, <<EmptyNote>> >>),
             PatternOf(<< <<NoteOn(3, 1)>> >>)>>,
           order,
           <<DefaultChan(GenSawtooth)>>)

OrderSongs == {SongOrder(<<0, 1>>), SongOrder(<<1, 0>>)}
OrderCalls == 2
OrderSamples == 6

EditOrderEntry ==
    \E cursor \in 0..(Len(Song.Order) - 1), digit \in 0..9 :
       /\ OrderSet(Song, cursor, digit) # Song
       /\ Edit(OrderSet(Song, cursor, digit))

InitOrder == InitWith(OrderSongs, OrderCalls, OrderSamples)

NextOrder ==
    \/ CallPlay
    \/ CallSetPosition
    \/ CallAdvanceTime
    \/ CallGenerateSamples
    \/ EditOrderEntry

SpecOrder == InitOrder /\ [][NextOrder]_vars

(* The control surface with seeks that land on an existing row of the     *)
(* order entry's pattern, over songs with speed and tempo effects and with   *)
(* patterns of different lengths                                             *)
CallSeek ==
    /\ Locked /\ UNCHANGED info
    /\ \E pos \in 0..(Len(Song.Order) - 1) :
          /\ Song.Order[pos + 1] < Len(Song.Patterns)
          /\ \E row \in 0..(Song.Patterns[Song.Order[pos + 1] + 1].Rows - 1) :
                Becomes(SetPosition(Player, pos, row))

CounterSongs == {SongEchoUp, SongSpeedFx}
CounterCalls == 2
CounterSamples == 9

InitCounters == InitWith(CounterSongs, CounterCalls, CounterSamples)

NextCounters ==
    \/ CallPlay
    \/ CallStop
    \/ CallSeek
    \/ CallGenerateSamples
    \/ CallAdvanceTime

SpecCounters == InitCounters /\ [][NextCounters]_vars

(* Play with an OnRow callback.  Play takes the mutex, processes the row *)
(* and invokes the callback before its deferred Unlock: mu = "control" is    *)
(* Play inside the callback.  A callback that leaves the player alone        *)
(* returns and Play unlocks.  A callback that calls GetPlaybackInfo calls    *)
(* p.mu.Lock(): it goes on when the mutex is free and otherwise waits; the   *)
(* mutex is not reentrant, so a thread waiting for the mutex it holds itself *)
(* waits for ever (mu = "blocked").                                          *)
BeginPlay ==
    /\ ~panic /\ callsLeft > 0 /\ callsLeft' = callsLeft - 1
    /\ MutexFree
    /\ mu' = "control"
    /\ UNCHANGED <<samplesLeft, genLeft, info>>
    /\ Becomes(Play(Player))

CallbackReturns ==
    /\ mu = "control"
    /\ mu' = "free"
    /\ UNCHANGED <<callsLeft, samplesLeft, genLeft, info>>
    /\ Becomes(Player)

CallbackCalls ==
    /\ mu = "control"
    /\ IF MutexFree
       THEN mu' = "free" /\ info' = GetPlaybackInfo(Player)
       ELSE mu' = "blocked" /\ UNCHANGED info
    /\ UNCHANGED <<callsLeft, samplesLeft, genLeft>>
    /\ Becomes(Player)

CallbackSongs == {SongEchoUp, SongSpeedFx}
CallbackPlays == 2
CallbackSamples == 12

InitCallbacks == InitWith(CallbackSongs, CallbackPlays, CallbackSamples)

NextCallbacks ==
    \/ BeginPlay
    \/ CallbackReturns
    \/ CallbackCalls
    \/ CallStop
    \/ PullSample

SpecCallbacks == InitCallbacks /\ [][NextCallbacks]_vars


(* Export to a WAV file while the real-time output runs on the same player *)

(* uint32(x) of a Go int, as the pair of its 16-bit halves *)
U32(x) == <<(x \div 65536) % 65536, x % 65536>>

(* int16(s * 32767) of a sample clamped to [-1, 1] *)
PCM16(v) ==
    LET c == Min(Max(v, 0 - SampleOne), SampleOne)
        m == IF c < 0 THEN 0 - c ELSE c
        q == ((m \div 1024) * 32767 + ((m % 1024) * 32767) \div 1024) \div (SampleOne \div 1024)
    IN IF c < 0 THEN 0 - q ELSE q

(* WriteSamples on a writer that takes `accepted` samples and then fails *)
WriteSamples(out, samples, accepted) ==
    out \o [i \in 1..Min(accepted, Len(samples)) |-> PCM16(samples[i])]

(* int(durationSeconds * float64(sampleRate)), the duration in tenths of a *)
(* second                                                                   *)
TotalSamples(tenths, sampleRate) == (tenths * sampleRate) \div 10

(* the chunk length of ExportWAV, 4096 in the source *)
chunkSize == 3
(* durations passed to ExportWAV, in tenths of a second *)
ExportDurations == {0, 1, 2, 4}
ExportSongs == {SongEchoUp, SongOrder(<<0, 1>>)}
ExportCalls == 1
(* samples the real-time output pulls while the export runs *)
ExportSamples == 4

(* the song rendered from order position 0 row 0 for n sample periods *)
Rendered(s, n) == WriteSamples(<<>>, GenerateSamples(Play(SetPosition(s, 0, 0)), n).buffer, n)

ExportIdle == [pc |-> "idle", total |-> 0, header |-> U32(0), out |-> <<>>, ref |-> <<>>]

(* ExportWAV up to its SetPosition(0, 0) *)
ExportBegin ==
    /\ Control /\ MutexFree
    /\ info.pc \in {"idle", "done", "failed"}
    /\ \E d \in ExportDurations :
          LET totalSamples == TotalSamples(d, Song.SampleRate)
          IN info' = [pc |-> "play", total |-> totalSamples, header |-> U32(totalSamples * 2),
                      out |-> <<>>, ref |-> Rendered(Player, totalSamples)]
    /\ Becomes(SetPosition(Player, 0, 0))

ExportPlay ==
    /\ ~panic /\ MutexFree /\ info.pc = "play"
    /\ info' = [info EXCEPT !.pc = "loop"]
    /\ UNCHANGED <<callsLeft, samplesLeft, mu, genLeft>>
    /\ Becomes(Play(Player))

(* one pass of the chunk loop; a failing write returns at once *)
ExportChunk ==
    /\ ~panic /\ MutexFree /\ info.pc = "loop"
    /\ Len(info.out) < info.total
    /\ UNCHANGED <<callsLeft, samplesLeft, mu, genLeft>>
    /\ LET n == Min(chunkSize, info.total - Len(info.out))
       IN \A g \in {GenerateSamples(Player, n)} :
             /\ Becomes(g)
             /\ \E accepted \in {0, n} :
                   info' = [info EXCEPT !.out = WriteSamples(@, g.buffer, accepted),
                                        !.pc = IF accepted < n THEN "failed" ELSE "loop"]

ExportStop ==
    /\ ~panic /\ MutexFree /\ info.pc = "loop"
    /\ Len(info.out) >= info.total
    /\ info' = [info EXCEPT !.pc = "done"]
    /\ UNCHANGED <<callsLeft, samplesLeft, mu, genLeft>>
    /\ Becomes(Stop(Player))

InitExport ==
    /\ callsLeft = ExportCalls /\ samplesLeft = ExportSamples
    /\ mu = "free" /\ genLeft = 0
    /\ info = ExportIdle
    /\ \E song \in ExportSongs : StateIs(NewPlayer(song))

NextExport == ExportBegin \/ ExportPlay \/ ExportChunk \/ ExportStop \/ PullSample

SpecExport == InitExport /\ [][NextExport]_vars


(* The order editor: the keys of handleOrderKey on the song's order list,  *)
(* info holding the editor's OrderCursor                                     *)
OrderCursor == info.OrderCursor

(* "+": the entry under the cursor is inserted once more after it *)
OrderAdd(song, cursor) ==
    [song EXCEPT !.Order = SubSeq(@, 1, cursor + 1) \o <<@[cursor + 1]>>
                              \o SubSeq(@, cursor + 2, Len(@))]

(* "n": a new 64-row pattern is appended and assigned; uint8 of its index *)
OrderNewPattern(song, cursor) ==
    LET pats == Append(song.Patterns, NewPattern(LoopRows, song.Channels))
    IN [song EXCEPT !.Patterns = pats, !.Order[cursor + 1] = (Len(pats) - 1) % 256]

(* a key handled: the song and the cursor it leaves *)
OrderKey(song, cursor) ==
    /\ ~panic /\ callsLeft > 0 /\ callsLeft' = callsLeft - 1
    /\ Song' = song
    /\ info' = [OrderCursor |-> cursor]
    /\ UNCHANGED <<Channels, Playing, Position, Pattern, Row, Tick, TickSamples,
                   TickCounter, EchoBuffers, EchoPos, panic, buffer, contrib, rowLog,
                   sinceRow, rowLen, samplesLeft, mu, genLeft>>

KeyUp == OrderKey(Song, IF OrderCursor > 0 THEN OrderCursor - 1 ELSE OrderCursor)

KeyDown ==
    OrderKey(Song, IF OrderCursor < Len(Song.Order) - 1 THEN OrderCursor + 1 ELSE OrderCursor)

KeyAdd == OrderKey(OrderAdd(Song, OrderCursor), OrderCursor + 1)

KeyRemove ==
    \A song \in {OrderRemove(Song, OrderCursor)} :
        OrderKey(song, IF Len(Song.Order) > 1 /\ OrderCursor >= Len(song.Order)
                       THEN Len(song.Order) - 1 ELSE OrderCursor)

KeyDigit == \E digit \in 0..9 : OrderKey(OrderSet(Song, OrderCursor, digit), OrderCursor)

KeyNewPattern == OrderKey(OrderNewPattern(Song, OrderCursor), OrderCursor)

EditorSongs == {SongOrder(<<0, 1>>), SongOrder(<<1>>)}
(* keys typed in the order editor *)
EditorKeys == 5

InitEditor ==
    /\ callsLeft = EditorKeys /\ samplesLeft = 0 /\ mu = "free" /\ genLeft = 0
    /\ info = [OrderCursor |-> 0]
    /\ \E song \in EditorSongs : StateIs(NewPlayer(song))

NextEditor == KeyUp \/ KeyDown \/ KeyAdd \/ KeyRemove \/ KeyDigit \/ KeyNewPattern

SpecEditor == InitEditor /\ [][NextEditor]_vars

-----------------------------------------------------------------------------
(* Properties *)

(* samples generated so far in a run bounded by total samples *)
Generated(total) == total - samplesLeft

(* C1: with no tempo or speed change while Playing, the row advances by    *)
(* exactly one every Speed * TickSamples generated samples and never        *)
(* earlier; at speed 6, tempo 125, 44100 Hz TickSamples is 882, the row has *)
(* advanced by 1 after exactly 5292 samples and by 0 after 5291.            *)
C1_RowEverySpeedTimesTickSamples ==
    LET g    == Generated(TimingSamples)
        L    == Song.Speed * TickSamples
        rows == Song.Patterns[Pattern + 1].Rows
    IN /\ (Song.Tempo = 125 /\ Song.SampleRate = 44100) => TickSamples = 882
       /\ (Song.Speed = 6 /\ TickSamples = 882) =>
             /\ g = 5291 => (Row = 0 /\ rowLen = 0)
             /\ g = 5292 => (Row = 1 /\ rowLen = 5292)
       /\ Playing => /\ Row = (g \div L) % rows
                     /\ sinceRow = g % L
                     /\ rowLen \in {0, L}

C1_Witness ==
    /\ Playing
    /\ Song.SampleRate = 44100
    /\ Generated(TimingSamples) = 5292
    /\ Row = 1

(* C2: while Playing, the cells of a row are processed exactly once per   *)
(* visit to the row, the row at which Play was issued included: no row is   *)
(* processed twice during one visit.                                        *)
C2_RowProcessedOncePerVisit ==
    \A i, j \in 1..Len(rowLog) : i # j => rowLog[i] # rowLog[j]

(* C3: with Order = [0] and a 64-row pattern, playback started at row 0    *)
(* processes rows 0, 1, ..., 63 in that order, each for Speed ticks, none   *)
(* skipped and none twice within a pass, and stays on pattern Order[0].     *)
C3_LoopVisitsRowsInOrder ==
    /\ \A i \in 1..Len(rowLog) : rowLog[i] = i - 1
    /\ rowLen \in {0, Song.Speed * TickSamples}
    /\ Position = 0
    /\ Pattern = Song.Order[1]

(* C4: the song loops indefinitely: while the player stays Playing and    *)
(* samples keep being generated, every order position is entered again and  *)
(* again, position 0 row 0 is reached infinitely often, and playback does   *)
(* not stay at one row or position.                                         *)
AtSongStart == Position = 0 /\ Row = 0 /\ Tick = 0 /\ TickCounter = 0

(* samples keep being generated: the audio thread pulls again and again *)
SamplesKeepComing == []<><<PullSample>>_vars

C4_SongLoopsForever ==
    (SamplesKeepComing /\ <>[](Playing /\ ~panic)) =>
        /\ []<>AtSongStart
        /\ []<>(~AtSongStart)
        /\ \A pos \in 0..1 : []<>(Position = pos /\ Row = 0)

C4_Witness ==
    /\ Playing
    /\ callsLeft = 0
    /\ Len(Song.Order) > 1
    /\ rowLen > 0
    /\ AtSongStart

(* C5: generating N samples advances playback by exactly N sample periods *)
(* and depends on the prior state and N only: N samples in one call leave   *)
(* the same player state and give the same samples as the same N samples    *)
(* split into two consecutive calls.                                        *)
SameState(a, b) ==
    /\ a.Song = b.Song /\ a.Channels = b.Channels /\ a.Playing = b.Playing
    /\ a.Position = b.Position /\ a.Pattern = b.Pattern /\ a.Row = b.Row
    /\ a.Tick = b.Tick /\ a.TickSamples = b.TickSamples /\ a.TickCounter = b.TickCounter
    /\ a.EchoBuffers = b.EchoBuffers /\ a.EchoPos = b.EchoPos /\ a.panic = b.panic

C5_GenerateIsSplittable ==
    ~panic =>
      \A n, m \in 1..MaxBuf :
        LET first  == GenerateSamples(Player, n)
            second == GenerateSamples(first, m)
            whole  == GenerateSamples(Player, n + m)
        IN /\ SameState(whole, second)
           /\ ~whole.panic =>
                 /\ whole.buffer = first.buffer \o second.buffer
                 /\ Len(whole.buffer) = n + m
                 /\ \A ch \in DOMAIN EchoPos :
                       whole.EchoPos[ch] = (EchoPos[ch] + n + m) % EchoLen(Player)

(* a playing state in mid-tick with a sounding voice, so that a split      *)
(* falls on either side of a tick boundary                                  *)
C5_Witness ==
    /\ Playing /\ ~panic
    /\ TickCounter = TickSamples - 1
    /\ Len(buffer) = MaxBuf
    /\ buffer[1] # 0
    /\ \E ch \in DOMAIN Channels : Channels[ch].Active /\ Channels[ch].Volume > 0

(* C6: Stop is synchronous: when Stop returns Playing is false and every   *)
(* voice is inactive with volume 0, and a generate call made while stopped  *)
(* neither advances the tick, row or order counters nor triggers a note.    *)
Silent(chans) == \A ch \in DOMAIN chans : ~chans[ch].Active /\ chans[ch].Volume = 0

C6_StopIsSynchronous ==
    [][/\ CallStop => (~Playing' /\ Silent(Channels'))
       /\ (~Playing /\ CallGenerateSamples) =>
             /\ UNCHANGED <<Playing, Position, Pattern, Row, Tick, TickCounter, rowLog>>
             /\ Silent(Channels) /\ Silent(Channels')]_vars

(* stopped after a note sounded, and the sample generated last is silent *)
C6_Witness ==
    /\ ~Playing /\ ~panic
    /\ callsLeft = 0
    /\ rowLog # <<>>
    /\ TickCounter > 0
    /\ DOMAIN EchoBuffers[1] # {}
    /\ EchoPos[1] > 0
    /\ (EchoPos[1] - 1) \notin DOMAIN EchoBuffers[1]
    /\ Len(buffer) > 0

(* C7: timing is never stale: TickSamples is floor(SampleRate / (Tempo *   *)
(* 2/5)) for the current tempo in every reachable state, the states after  *)
(* a set-tempo effect included.                                             *)
C7_TimingNeverStale ==
    TickSamples = (Song.SampleRate * 5) \div (Song.Tempo * 2)

(* the tick boundary after a set-tempo effect has been passed *)
C7_Witness ==
    /\ Playing /\ ~panic
    /\ Song.Tempo = 65
    /\ TickSamples = 1
    /\ Tick = 2
    /\ rowLog = <<0, 0, 1>>

(* C8: from a song with speed in 1..31 and tempo in 32..255, whatever      *)
(* set-speed-or-tempo parameters the rows hold, the speed stays within      *)
(* 1..31 and the tempo within 32..255.                                      *)
C8_SpeedAndTempoStayInRange ==
    /\ Song.Speed \in 1..31
    /\ Song.Tempo \in 32..255

(* C9: a muted channel contributes silence: it adds 0 to the mix and       *)
(* writes 0 into its own echo ring buffer whatever its voice plays.         *)
Muted(ch) == ch <= Len(Song.ChanConfig) /\ Song.ChanConfig[ch].Muted

C9_MutedChannelIsSilent ==
    \A ch \in DOMAIN Channels :
        (Muted(ch) /\ Channels[ch].EchoDelay = 0) =>
            /\ contrib[ch] = 0
            /\ DOMAIN EchoBuffers[ch] = {}

(* C10: echo is an exact time shift: a channel with echo source A and a    *)
(* delay of D = rows * TickSamples * Speed samples contributes its own      *)
(* sample plus (1 + volume offset / 64) times A's own sample of D samples    *)
(* earlier, whether A's index is lower or higher than the channel's.        *)
LastWritten(ch, back) == BufGet(EchoBuffers[ch], (EchoPos[ch] - 1 - back) % EchoLen(Player))

C10_EchoIsExactShift ==
    \A b \in DOMAIN Channels :
        LET cs == Channels[b]
            a  == cs.EchoSource + 1
            D  == DelaySamples(Player, cs)
        IN (/\ ~panic /\ Len(buffer) > 0
            /\ a \in DOMAIN Channels /\ cs.EchoDelay > 0
            /\ D < EchoLen(Player)
            /\ EchoPos[a] > D /\ EchoPos[a] = EchoPos[b]) =>
               contrib[b] = LastWritten(b, 0) + EchoScale(LastWritten(a, D), cs.EchoVolMod)

(* C11: references to missing entries never fault: whatever order entry,  *)
(* instrument reference, default ornament or set-ornament parameter refers  *)
(* to a missing entry, and whatever list is empty or was shortened by the    *)
(* editor between calls, no call of the player makes an out-of-range access. *)
C11_MissingReferencesNeverFault == ~panic

(* C12: the methods of one player run in mutual exclusion: a call from    *)
(* the control surface takes effect only while no generate call is in       *)
(* progress, and GetPlaybackInfo returns the position, pattern, row, tick    *)
(* and playing flag of one state between whole generate calls.              *)
Playback ==
    <<Channels, Playing, Position, Pattern, Row, Tick, TickSamples, TickCounter,
      EchoBuffers, EchoPos>>

C12_PlayerCallsAreExclusive ==
    [][/\ (mu = "audio" /\ Playback' # Playback) => (genLeft > 0 /\ genLeft' = genLeft - 1)
       /\ info' # info => (/\ mu = "free" /\ genLeft = 0
                           /\ info' = <<Position, Pattern, Row, Tick, Playing>>)]_vars

(* the position was read after a whole generate call advanced a tick *)
C12_Witness ==
    /\ ~panic
    /\ mu = "free"
    /\ Len(buffer) = MaxBuf
    /\ info = <<Position, Pattern, Row, Tick, Playing>>
    /\ Playing /\ Tick = 1

(* C13: every change the editor makes to the song is made holding the     *)
(* mutex that generate holds: no edit happens while a generate call is in    *)
(* progress.                                                                *)
EditSong == EditOrder \/ EditOrnament \/ EditInstrument \/ EditCell

C13_EditsHoldTheMutex == [][EditSong => mu = "free"]_vars

(* C14: a one-channel song whose row 0 holds pitch 48 with an instrument  *)
(* of attack 0, decay 0, sustain 64, at tempo 125, speed 6, 44100 Hz: after  *)
(* Play and exactly 5292 generated samples the voice is active, its volume   *)
(* is the instrument's volume / 64, its instrument index is that instrument  *)
(* and its oscillator runs at the frequency of pitch 48 (261.625 Hz).        *)
C14_TriggerEndToEnd ==
    LET cell == Song.Patterns[1].Notes[1][1]
        inst == Song.Instruments[cell.Instrument]
        cs   == Channels[1]
    IN (Playing /\ Generated(TriggerSamples) = 5292) =>
          /\ Song.Tempo = 125 /\ Song.Speed = 6 /\ Song.SampleRate = 44100
          /\ cell.Pitch = 48
          /\ inst.Envelope.Attack = 0 /\ inst.Envelope.Decay = 0
          /\ inst.Envelope.Sustain = 64
          /\ cs.Active
          /\ cs.Volume = VolOf64(inst.Volume)
          /\ cs.Instrument = cell.Instrument - 1
          /\ cs.Oscillator.Frequency = NoteToFreq(48)
          /\ NoteToFreq(48) = 261625

C14_Witness ==
    /\ Playing
    /\ Generated(TriggerSamples) = 5292
    /\ Channels[1].Active
    /\ Channels[1].Instrument = 1
    /\ Channels[1].Volume = VolOf64(40)

(* two volumes that differ by no more than the rounding of the fixed point *)
Near(v, w) == v - w <= VolOne \div 8192 + 1 /\ w - v <= VolOne \div 8192 + 1

(* C15: with attack 0 the first envelope tick after a trigger sets the    *)
(* volume to the target; with attack a > 0 the volume after k <= a envelope  *)
(* ticks is target * k / a, and after exactly a ticks the volume is the      *)
(* target and the envelope is in Decay.                                     *)
C15_AttackRamp ==
    LET k  == Generated(EnvSamples) \div TickSamples
        cs == Channels[1]
        a  == Song.Instruments[1].Envelope.Attack
    IN (Playing /\ k >= 1) =>
          /\ (a = 0 /\ k = 1) => cs.Volume = cs.TargetVol
          /\ (a > 0 /\ k < a) =>
                 /\ cs.EnvPhase = 0
                 /\ Near(cs.Volume, FloorDiv(cs.TargetVol * k, a))
          /\ (a > 0 /\ k = a) =>
                 /\ cs.Volume = cs.TargetVol
                 /\ cs.EnvPhase = 1

(* C17: the ornament cursor advances by one per tick; for L values and a  *)
(* loop index k in [0, L) the L-th tick after a cursor reset leaves the      *)
(* cursor at k and the cursor then cycles over k..L-1; with loop -1 the      *)
(* cursor reaches L-1 and stays there.                                      *)
CursorAfter(ticks, len, loop) ==
    IF ticks < len THEN ticks
    ELSE IF loop >= 0 THEN loop + ((ticks - len) % (len - loop))
    ELSE len - 1

C17_OrnamentCursor ==
    LET ticks == Generated(OrnSamples) \div TickSamples
        orn   == Song.Ornaments[1]
    IN (Playing /\ ticks >= 1) =>
          /\ Channels[1].Active
          /\ Channels[1].Ornament = 1
          /\ Channels[1].OrnPos = CursorAfter(ticks, Len(orn.Values), orn.Loop)

(* the cursor of a three-value ornament looping at 1 has wrapped twice *)
C17_Witness ==
    /\ Playing
    /\ Generated(OrnSamples) \div TickSamples = 6
    /\ Len(Song.Ornaments[1].Values) = 3
    /\ Song.Ornaments[1].Loop = 1
    /\ Channels[1].OrnPos = 2

(* the player n ticks later *)
RECURSIVE TicksLater(_, _)
TicksLater(s, n) ==
    IF n = 0 THEN s
    ELSE CHOOSE r \in {TicksLater(t, n - 1) : t \in {ProcessTick(s)}} : TRUE

(* the voice of channel ch has an envelope: its instrument index is bound *)
HasEnvelope(s, ch) ==
    /\ s.Channels[ch].Instrument >= 0
    /\ s.Channels[ch].Instrument < Len(s.Song.Instruments)

(* the release time of the voice's envelope, 0 without one *)
ReleaseOf(s, ch) ==
    IF HasEnvelope(s, ch)
    THEN s.Song.Instruments[s.Channels[ch].Instrument + 1].Envelope.Release
    ELSE 0

(* a voice in release: a tick does not raise its volume, and within        *)
(* 10 * release + 1 ticks it is inactive at volume 0                         *)
Silenced(cs) == ~cs.Active /\ cs.Volume = 0

Releasing(s, ch) ==
    (s.Channels[ch].Active /\ s.Channels[ch].EnvPhase = 3) =>
        /\ \A t \in {ProcessTick(s)} :
              /\ t.Channels[ch].Volume <= s.Channels[ch].Volume
              /\ ~t.Channels[ch].Active => t.Channels[ch].Volume = 0
        /\ Silenced(TicksLater(s, 10 * ReleaseOf(s, ch) + 1).Channels[ch])

(* the cell of channel ch on the current row *)
OnNoteOff(s, ch) ==
    /\ s.Pattern < Len(s.Song.Patterns)
    /\ s.Row < s.Song.Patterns[s.Pattern + 1].Rows
    /\ s.Song.Patterns[s.Pattern + 1].Notes[s.Row + 1][ch].Pitch = -2

OnNote(s, ch) ==
    /\ s.Pattern < Len(s.Song.Patterns)
    /\ s.Row < s.Song.Patterns[s.Pattern + 1].Rows
    /\ s.Song.Patterns[s.Pattern + 1].Notes[s.Row + 1][ch].Pitch >= 0

ReleaseEnds(s, ch, scope) ==
    /\ (scope /\ s.Channels[ch].Active /\ OnNoteOff(s, ch)) =>
           \A r \in {ProcessRow(s)} : r.Channels[ch].EnvPhase = 3 /\ Releasing(r, ch)
    /\ scope => Releasing(s, ch)
    /\ ~s.Channels[ch].Active =>
           /\ ProcessTick(s).Channels[ch] = s.Channels[ch]
           /\ ProcessRow(s).Channels[ch].Active => OnNote(s, ch)

(* C16, for a voice that has an envelope: after a note-off cell is         *)
(* processed for an active voice no tick raises the volume, after finitely   *)
(* many ticks (at most 10 * release + 1) the voice is inactive at volume 0,  *)
(* and an inactive voice is left alone by every tick and becomes active      *)
(* again only by a note trigger.                                            *)
C16_ReleaseEndsWithEnvelope ==
    ~panic => \A ch \in 1..Len(Channels) : ReleaseEnds(Player, ch, HasEnvelope(Player, ch))

(* a release time of MaxRelease has run out *)
C16_Witness ==
    /\ Playing
    /\ ReleaseOf(Player, 1) = MaxRelease
    /\ HasEnvelope(Player, 1)
    /\ ~Channels[1].Active
    /\ Channels[1].EnvPhase = 3
    /\ Channels[1].Volume = 0
    /\ Row >= 2

(* C16 as stated, for every active voice: release terminates and          *)
(* deactivates the voice after finitely many ticks.                         *)
C16_ReleaseEnds ==
    ~panic => \A ch \in 1..Len(Channels) : ReleaseEnds(Player, ch, TRUE)

(* the cell of channel ch (counted from 1) on the current row *)
HasCell(s) ==
    /\ s.Pattern < Len(s.Song.Patterns)
    /\ s.Row < s.Song.Patterns[s.Pattern + 1].Rows

CellAt(s, ch) == s.Song.Patterns[s.Pattern + 1].Notes[s.Row + 1][ch]

(* a frequency moved by step towards target without passing it *)
Toward(freq, target, step) ==
    IF freq < target THEN Min(freq + step, target)
    ELSE IF freq > target THEN Max(freq - step, target)
    ELSE freq

(* C18: after a portamento effect with parameter p > 0 the target is the  *)
(* frequency of the most recently triggered note pitch of the channel, and   *)
(* every tick moves the channel frequency by p * 4 Hz towards that target,   *)
(* never past it, and leaves it at the target once reached.                  *)
C18_PortamentoTowardsNote ==
    ~panic =>
    \A ch \in 1..Len(Channels) :
        (/\ Channels[ch].Active
         /\ Channels[ch].PortaSpeed > 0
         /\ Channels[ch].SlideSpeed = 0
         /\ Channels[ch].VibDepth = 0
         /\ Channels[ch].Ornament = 0) =>
            \A t \in {ProcessTick(Player)} :
                t.Channels[ch].Frequency =
                    Toward(Channels[ch].Frequency, NoteToFreq(Channels[ch].BaseNote),
                           Channels[ch].PortaSpeed)

(* the slide delta that the rows processed so far leave on channel ch *)
RECURSIVE SlideOf(_, _, _)
SlideOf(pat, log, ch) ==
    IF log = <<>> THEN 0
    ELSE LET fx == pat.Notes[log[Len(log)] + 1][ch].Effect
         IN IF fx.Type = FxSlideUp THEN fx.Param * 4000
            ELSE IF fx.Type = FxSlideDown THEN 0 - fx.Param * 4000
            ELSE SlideOf(pat, SubSeq(log, 1, Len(log) - 1), ch)

(* C19: a slide-up / slide-down effect with parameter p sets a per-tick   *)
(* frequency delta of +p*4 / -p*4 Hz that stays on later rows until another  *)
(* slide effect changes it, and on every tick on which a slide is applied to *)
(* an active voice the resulting frequency lies within [20, 20000] Hz.       *)
C19_SlidePersistsAndIsClamped ==
    ~panic =>
    \A ch \in 1..Len(Channels) :
        /\ Channels[ch].SlideSpeed = SlideOf(Song.Patterns[1], rowLog, ch)
        /\ (Channels[ch].Active /\ Channels[ch].SlideSpeed # 0) =>
               \A t \in {ProcessTick(Player)} :
                   /\ t.Channels[ch].Frequency >= 20000
                   /\ t.Channels[ch].Frequency <= 20000000
                   /\ t.Channels[ch].Frequency =
                          Min(Max(Channels[ch].Frequency + Channels[ch].SlideSpeed, 20000),
                              20000000)
                   /\ t.Channels[ch].SlideSpeed = Channels[ch].SlideSpeed

(* a slide set on row 0 has run into the upper limit on a later row, while *)
(* the other channel's slide has outlived a new note                         *)
C19_Witness ==
    /\ Playing
    /\ Row >= 3
    /\ Channels[2].Active
    /\ Channels[2].SlideSpeed = 255 * 4000
    /\ Channels[2].Frequency = 20000000
    /\ Channels[1].Active
    /\ Channels[1].BaseNote = 48
    /\ Channels[1].SlideSpeed = 5 * 4000

(* every effect command *)
EffectCommands ==
    {Fx(type, param) : type \in {FxArpeggio, FxSlideUp, FxSlideDown, FxPortamento, FxVibrato,
                                  FxVolume, FxSpeed, FxOrnament, FxEcho, FxDuty},
                       param \in {0, 1, 18, 64, 255}}

(* C20: processing an effect command for channel c, and the per-tick      *)
(* effect application for channel c, leave the voice of every other channel  *)
(* unchanged: each voice after a row or a tick is what its own cell or its   *)
(* own tick makes of it.                                                     *)
C20_EffectsStayOnTheirChannel ==
    ~panic =>
    \A ch \in 1..Len(Channels) :
        /\ \A fx \in EffectCommands : \A other \in (1..Len(Channels)) \ {ch} :
               processEffect(Player, ch - 1, fx).Channels[other] = Channels[other]
        /\ HasCell(Player) =>
               ProcessRow(Player).Channels[ch]
                   = ProcessCell(Player, ch - 1, CellAt(Player, ch)).Channels[ch]
        /\ ProcessTick(Player).Channels[ch]
               = IF Channels[ch].Active THEN TickChannel(Player, Channels[ch])
                 ELSE Channels[ch]

(* both voices sound, each under an effect of its own *)
C20_Witness ==
    /\ Playing
    /\ Row = 2
    /\ Channels[1].Active /\ Channels[2].Active
    /\ Channels[1].PortaSpeed > 0
    /\ Channels[2].VibDepth > 0
    /\ Channels[2].EchoDelay = 1
    /\ Channels[1].EchoDelay = 0
    /\ Channels[1].VibDepth = 0

(* C21: an oscillator whose frequency is zero or negative returns 0 from *)
(* Sample and keeps its phase (and every other field), whatever its kind.    *)
C21_NoFrequencyNoSample ==
    \A ch \in 1..Len(Channels) :
        Channels[ch].Oscillator.Frequency <= 0 =>
            \A r \in {OscSample(Channels[ch].Oscillator, Song.SampleRate)} :
                /\ r.val = 0
                /\ r.osc.Phase = Channels[ch].Oscillator.Phase
                /\ r.osc = Channels[ch].Oscillator

(* a noise oscillator that ran, then got a negative frequency and was      *)
(* sampled again                                                             *)
C21_Witness ==
    /\ Channels[1].Oscillator.Type = GenNoise
    /\ Channels[1].Oscillator.Frequency < 0
    /\ Channels[1].Oscillator.Phase > 0
    /\ samplesLeft = 0
    /\ callsLeft = 0
    /\ buffer = <<0>>

(* the scheduler's fields and what ProcessRow and ProcessTick work on *)
Schedule(s) ==
    <<s.Playing, s.Position, s.Pattern, s.Row, s.Tick, s.TickCounter, s.TickSamples,
      s.rowLog, s.sinceRow, s.rowLen, s.Channels, s.Song>>

(* C22: while the player is stopped, a generate call of any length leaves *)
(* Position, Pattern, Row, Tick and TickCounter as they are and processes no *)
(* row and no tick (no row is logged, no voice changes), and AdvanceTime     *)
(* changes nothing at all.                                                   *)
C22_StoppedPlayerStandsStill ==
    (~Playing /\ ~panic) =>
        /\ \A n \in 1..(MaxBuf + 1) : \A g \in {GenerateSamples(Player, n)} :
               /\ Schedule(g) = Schedule(Player)
               /\ Len(g.buffer) = n
               /\ ~g.panic
        /\ \A e \in 1..MaxElapsed : AdvanceTime(Player, e) = Player

(* stopped one sample into row 0, then eight more samples were generated *)
C22_Witness ==
    /\ Song = SongEchoUp
    /\ ~Playing
    /\ callsLeft = 0
    /\ samplesLeft = 0
    /\ Position = 0 /\ Row = 0 /\ Tick = 0
    /\ TickCounter = 1
    /\ rowLog = <<0>>
    /\ Len(buffer) > 0

(* the state in which the mixing loop of the next sample has rendered the *)
(* channels before ch                                                        *)
RECURSIVE RenderBefore(_, _)
RenderBefore(s, ch) ==
    IF ch = 0 THEN (IF s.Playing THEN TickAdvance(s) ELSE s)
    ELSE RenderChannel(RenderBefore(s, ch - 1), ch - 1)

(* and has stored the sample of ch: the state the echo read of ch sees *)
EchoReadState(s, ch) ==
    CHOOSE r \in {VoiceSample(t, ch, GenerateSample(t.Channels[ch + 1], t.Song.SampleRate)) :
                     t \in {RenderBefore(s, ch)}} : TRUE

Echoing(cs, n) == cs.EchoSource >= 0 /\ cs.EchoSource < n /\ cs.EchoDelay > 0

(* C23: for every echo delay of 1..15 rows, every speed and every tempo,  *)
(* the index at which a channel reads its source's ring buffer lies in       *)
(* [0, buffer length).                                                       *)
C23_EchoReadIsInTheBuffer ==
    ~panic =>
    \A ch \in 0..(Len(Channels) - 1) :
        \A t \in {EchoReadState(Player, ch)} :
            (~t.panic /\ Echoing(t.Channels[ch + 1], Len(t.Channels))) =>
                /\ EchoIdx(t, t.Channels[ch + 1]) >= 0
                /\ EchoIdx(t, t.Channels[ch + 1]) < EchoLen(t)

(* the value of an oscillator at its current phase *)
WaveAt(o, rate) ==
    CASE o.Type = GenTriangle -> triangle(o.Phase, rate)
      [] o.Type = GenSawtooth -> sawtooth(o.Phase, rate)
      [] o.Type = GenSquare   -> square(o.Phase, o.Duty, rate)
      [] o.Type = GenSawBig   -> sawBig(o.Phase, rate)
      [] o.Type = GenNoise    -> noise(o.Phase, rate)
      [] OTHER                -> 0

(* the scaled sample of the voice of channel ch (from 1) alone, for the   *)
(* sample just rendered                                                      *)
OwnVoice(ch) ==
    IF ~Channels[ch].Active \/ Channels[ch].Volume <= 0
         \/ Channels[ch].Oscillator.Frequency <= 0
    THEN 0
    ELSE ChannelScale(Player, ch - 1,
                      WaveAt(Channels[ch].Oscillator, Song.SampleRate) * Channels[ch].Volume)

(* the delayed copy channel ch adds: the source's sample of D samples     *)
(* earlier, D-1 when the source was rendered before the read                 *)
EchoCopy(ch) ==
    LET cs == Channels[ch]
        D  == DelaySamples(Player, cs)
    IN IF Echoing(cs, Len(Channels))
       THEN EchoScale(LastWritten(cs.EchoSource + 1,
                                  IF cs.EchoSource + 1 <= ch THEN D - 1 ELSE D),
                      cs.EchoVolMod)
       ELSE 0

EchoWithoutFeedback ==
    \A ch \in DOMAIN Channels :
        /\ LastWritten(ch, 0) = OwnVoice(ch)
        /\ contrib[ch] = OwnVoice(ch) + EchoCopy(ch)

(* C24: echo has no feedback path: after every generated sample the value *)
(* just written into a channel's ring buffer is the channel's own scaled     *)
(* voice sample, and the channel's output is that plus one delayed copy of   *)
(* what the source's ring buffer holds, also when a channel echoes itself    *)
(* or two channels echo each other.                                          *)
C24_EchoHasNoFeedback ==
    [][(samplesLeft' < samplesLeft /\ ~panic') => EchoWithoutFeedback']_vars

(* the self-echoing channel is silent after its note-off and still puts   *)
(* out the delayed copy of its note                                          *)
C24_Witness ==
    /\ Song = SongEchoSelf
    /\ ~Channels[1].Active
    /\ Len(buffer) > 0
    /\ LastWritten(1, 0) = 0
    /\ contrib[1] # 0

(* C25: a note cell whose instrument reference is beyond the instrument   *)
(* list leaves the channel's bound instrument index, its oscillator's        *)
(* waveform kind and duty cycle and its ornament selection as they were      *)
(* before the row.                                                           *)
C25_UnknownInstrumentKeepsBindings ==
    (~panic /\ HasCell(Player)) =>
    \A ch \in 1..Len(Channels) :
        (/\ CellAt(Player, ch).Pitch >= 0
         /\ CellAt(Player, ch).Instrument > Len(Song.Instruments)
         /\ CellAt(Player, ch).Effect = NoEffect) =>
            \A r \in {ProcessRow(Player)} :
                /\ r.Channels[ch].Instrument = Channels[ch].Instrument
                /\ r.Channels[ch].Oscillator.Type = Channels[ch].Oscillator.Type
                /\ r.Channels[ch].Oscillator.Duty = Channels[ch].Oscillator.Duty
                /\ r.Channels[ch].Ornament = Channels[ch].Ornament

(* what an effect command leaves on the voice it was dispatched for *)
Dispatched(cs, fx) ==
    CASE fx.Type = FxSlideUp    -> cs.SlideSpeed = fx.Param * 4000
      [] fx.Type = FxSlideDown  -> cs.SlideSpeed = 0 - fx.Param * 4000
      [] fx.Type = FxPortamento -> cs.PortaSpeed = fx.Param * 4000
      [] fx.Type = FxVibrato    -> /\ cs.VibSpeed = (fx.Param \div 16) % 16
                                   /\ cs.VibDepth = fx.Param % 16
      [] fx.Type = FxEcho       -> /\ cs.EchoSource = (fx.Param \div 16) % 16
                                   /\ cs.EchoDelay = fx.Param % 16
      [] fx.Type = FxDuty       -> cs.Oscillator.Duty = DutyOf255(fx.Param)
      [] OTHER                  -> TRUE

(* the cell without its effect command *)
NoteOnly(cell) == [cell EXCEPT !.Effect = NoEffect]

(* C26: on every row visit, for every channel, the cell's effect command  *)
(* is dispatched after the note handling, whether the cell holds a note, a   *)
(* note-off or no note, and whether or not the voice is active: the voice    *)
(* after the row is what the effect makes of the voice after the cell's note *)
(* handling, and carries the effect's setting.                               *)
C26_EffectDispatchedForEveryCell ==
    (~panic /\ HasCell(Player)) =>
    \A ch \in 1..Len(Channels) :
        \A r \in {ProcessRow(Player)} :
            /\ r.Channels[ch] =
                  processEffect(ProcessCell(Player, ch - 1, NoteOnly(CellAt(Player, ch))),
                                ch - 1, CellAt(Player, ch).Effect).Channels[ch]
            /\ Dispatched(r.Channels[ch], CellAt(Player, ch).Effect)

(* a portamento on a silent voice without a note and a vibrato on a       *)
(* note-off cell have both arrived                                           *)
C26_Witness ==
    /\ Song = SongCells
    /\ Playing
    /\ Row = 2 /\ Tick = 1
    /\ Channels[2].PortaSpeed = 2 * 4000
    /\ Channels[2].VibDepth = 2
    /\ Channels[2].EnvPhase = 3
    /\ Channels[1].Oscillator.Duty = DutyOf255(128)

(* C27: envelope phase order: a tick leaves the phase or moves it one    *)
(* step forward from Attack to Decay or from Decay to Sustain, and leaves    *)
(* Release alone; a row sets Release on a note-off cell whatever the phase,  *)
(* Attack on a note cell, and leaves the phase on every other cell; Stop and *)
(* SetPosition leave it.                                                     *)
C27_EnvelopePhaseOrder ==
    ~panic =>
    \A ch \in 1..Len(Channels) :
        /\ Channels[ch].EnvPhase \in 0..3
        /\ \A t \in {ProcessTick(Player)} :
               \/ t.Channels[ch].EnvPhase = Channels[ch].EnvPhase
               \/ /\ Channels[ch].EnvPhase \in {0, 1}
                  /\ t.Channels[ch].EnvPhase = Channels[ch].EnvPhase + 1
        /\ HasCell(Player) =>
               \A r \in {ProcessRow(Player)} :
                   r.Channels[ch].EnvPhase =
                       IF CellAt(Player, ch).Pitch = -2 THEN 3
                       ELSE IF CellAt(Player, ch).Pitch >= 0 THEN 0
                       ELSE Channels[ch].EnvPhase
        /\ Stop(Player).Channels[ch].EnvPhase = Channels[ch].EnvPhase
        /\ SetPosition(Player, 0, 0).Channels[ch].EnvPhase = Channels[ch].EnvPhase

(* a voice in Decay on the row of its note-off, while the other voice has *)
(* reached Sustain                                                           *)
C27_Witness ==
    /\ Song = SongCells
    /\ Playing
    /\ Row = 2 /\ Tick = 0
    /\ CellAt(Player, 2).Pitch = -2
    /\ Channels[2].Active
    /\ Channels[2].EnvPhase = 1
    /\ Channels[1].EnvPhase = 2

(* the state in which the next sample's tick, when one is due, enters     *)
(* ProcessTick                                                               *)
TickEntry(s) ==
    IF s.Tick = 0 THEN ProcessRow([s EXCEPT !.TickCounter = 0])
    ELSE [s EXCEPT !.TickCounter = 0]

(* C28: whenever ProcessOrnament reads the current ornament's values, the *)
(* ornament cursor is a valid index: 0 <= OrnPos < number of values, also    *)
(* after the editor removed values between two ticks.                        *)
C28_OrnamentCursorIsValid ==
    (~panic /\ Playing /\ mu = "free" /\ TickCounter + 1 >= TickSamples) =>
        \A t \in {TickEntry(Player)} :
            \A ch \in 1..Len(t.Channels) :
                (/\ ~t.panic
                 /\ t.Channels[ch].Active
                 /\ t.Channels[ch].Ornament > 0
                 /\ t.Channels[ch].Ornament <= Len(t.Song.Ornaments)
                 /\ Len(t.Song.Ornaments[t.Channels[ch].Ornament].Values) > 0) =>
                    /\ t.Channels[ch].OrnPos >= 0
                    /\ t.Channels[ch].OrnPos
                          < Len(t.Song.Ornaments[t.Channels[ch].Ornament].Values)

(* C29: the set-ornament effect and an instrument's default ornament use *)
(* the same numbering: for every n with 1 <= n <= number of ornaments, the   *)
(* effect with parameter n selects ornament n (the one a default ornament n  *)
(* selects) with the cursor reset to 0; a parameter that names no ornament   *)
(* (0, or above the number of ornaments) leaves the selection and the cursor *)
(* unchanged.                                                                *)
C29_OrnamentNumbering ==
    ~panic =>
    \A ch \in 1..Len(Channels) :
        \A n \in 0..(Len(Song.Ornaments) + 2) :
            \A r \in {processEffect(Player, ch - 1, Fx(FxOrnament, n))} :
                IF 1 <= n /\ n <= Len(Song.Ornaments)
                THEN /\ r.Channels[ch].Ornament = n
                     /\ r.Channels[ch].OrnPos = 0
                     /\ r.Channels[ch].OrnTick = 0
                ELSE /\ r.Channels[ch].Ornament = Channels[ch].Ornament
                     /\ r.Channels[ch].OrnPos = Channels[ch].OrnPos
                     /\ r.Channels[ch].OrnTick = Channels[ch].OrnTick

(* C30: in every reachable state in which Position < length of the order *)
(* list, the player's Pattern is Order[Position].                            *)
C30_PatternFollowsOrder ==
    (~panic /\ Position >= 0 /\ Position < Len(Song.Order)) =>
        Pattern = Song.Order[Position + 1]

(* C31: between operations the scheduler counters are in range:          *)
(* 0 <= TickCounter < TickSamples, 0 <= Tick < Song.Speed and, when Pattern  *)
(* indexes an existing pattern, 0 <= Row < that pattern's row count.         *)
C31_CountersInRange ==
    ~panic =>
        /\ 0 <= TickCounter /\ TickCounter < TickSamples
        /\ 0 <= Tick /\ Tick < Song.Speed
        /\ Pattern < Len(Song.Patterns) =>
               (0 <= Row /\ Row < Song.Patterns[Pattern + 1].Rows)

(* the scheduler position *)
Counters(s) == <<s.Position, s.Pattern, s.Row, s.Tick, s.TickCounter>>

(* the voices without their oscillator phases, which only rendering moves *)
Notes(s) == [ch \in DOMAIN s.Channels |-> [s.Channels[ch] EXCEPT !.Oscillator.Phase = 0]]

(* C32: from the same playing state, AdvanceTime over S elapsed sample    *)
(* periods and generate of S samples leave the same Position, Pattern, Row,  *)
(* Tick and TickCounter and have processed the same rows, with the same      *)
(* result on the voices and on speed and tempo, for every S.                 *)
C32_DriversAgree ==
    (Playing /\ ~panic) =>
        \A n \in 1..MaxElapsed :
            \A a \in {AdvanceTime(Player, n)} : \A g \in {GenerateSamples(Player, n)} :
                (~a.panic /\ ~g.panic) =>
                    /\ Counters(a) = Counters(g)
                    /\ a.rowLog = g.rowLog
                    /\ a.Song = g.Song
                    /\ a.TickSamples = g.TickSamples
                    /\ Notes(a) = Notes(g)

(* C33: a playback callback that calls the player's control interface   *)
(* returns: no callback invocation leaves the player's thread waiting for    *)
(* the mutex it holds itself.                                                *)
C33_CallbackReturns == mu # "blocked"


(* C34: when ExportWAV has returned it has written exactly totalSamples    *)
(* samples, the count its header announces (dataSize = 2 * totalSamples),   *)
(* and the player is stopped; the chunk loop never writes past the total    *)
C34_ExportComplete ==
    /\ info.pc \in {"done", "failed"} =>
          /\ Len(info.out) = info.total
          /\ info.header = U32(2 * Len(info.out))
          /\ ~Playing
    /\ info.pc = "loop" => Len(info.out) <= info.total

(* C35: the samples an export wrote are the song rendered from order       *)
(* position 0 row 0, sample period by sample period, whatever the real-time *)
(* output pulled from the same player meanwhile                             *)
C35_ExportUndisturbed ==
    info.pc \in {"loop", "done", "failed"} =>
        info.out = SubSeq(info.ref, 1, Len(info.out))


(* C36: Stop changes only Playing and each voice's Active flag and Volume: *)
(* Position, Pattern, Row, Tick, TickCounter and everything else stay; a     *)
(* second Stop changes nothing more; and a Play after the Stop is at the     *)
(* same position and row and has processed that row (when the row exists),   *)
(* triggering its notes.                                                     *)
C36_StopKeepsPlace ==
    ~panic =>
        \A t \in {Stop(Player)} :
            /\ ~t.Playing
            /\ \A ch \in DOMAIN Channels :
                  /\ ~t.Channels[ch].Active /\ t.Channels[ch].Volume = 0
                  /\ [t.Channels[ch] EXCEPT !.Active = Channels[ch].Active,
                                            !.Volume = Channels[ch].Volume] = Channels[ch]
            /\ Counters(t) = Counters(Player)
            /\ [t EXCEPT !.Playing = Playing, !.Channels = Channels] = Player
            /\ Stop(t) = t
            /\ \A q \in {Play(t)} :
                  /\ q.Playing
                  /\ <<q.Position, q.Pattern, q.Row>> = <<Position, Pattern, Row>>
                  /\ HasCell(Player) =>
                        /\ q.rowLog = <<Row>>
                        /\ \A ch \in DOMAIN Channels :
                              CellAt(Player, ch).Pitch >= 0 => q.Channels[ch].Active

(* a player stopped in the middle of row 1 *)
C36_StoppedMidRow ==
    /\ ~panic /\ ~Playing /\ Row = 1 /\ Tick > 0
    /\ \A ch \in DOMAIN Channels : ~Channels[ch].Active


(* the row a driver processed on the first tick after a seek *)
Landed(s, pos, row) == ~s.panic => (s.rowLog # <<>> /\ s.rowLog[1] = row /\ s.Position = pos)

(* C37: SetPosition(pos, row) sets Position and Row to its arguments and   *)
(* Tick and TickCounter to 0, sets Pattern to Order[pos] when pos is within  *)
(* the order list and leaves it otherwise, changes neither Playing nor a     *)
(* voice, and the first row processed afterwards is row `row` of position    *)
(* pos: by the Play that follows, and in a playing song (two ticks a row or  *)
(* more) by the first tick of either driver.                                 *)
C37_SeekLands ==
    ~panic =>
        \A pos \in 0..Len(Song.Order), row \in 0..MaxSeekRow :
            \A t \in {SetPosition(Player, pos, row)} :
                /\ <<t.Position, t.Row, t.Tick, t.TickCounter>> = <<pos, row, 0, 0>>
                /\ t.Pattern = IF pos < Len(Song.Order) THEN Song.Order[pos + 1] ELSE Pattern
                /\ t.Playing = Playing /\ t.Channels = Channels
                /\ (pos < Len(Song.Order) /\ HasCell(t)) =>
                      /\ Landed(Play(t), pos, row)
                      /\ (Playing /\ Song.Speed >= 2) =>
                            /\ Landed(GenerateSamples(t, t.TickSamples), pos, row)
                            /\ Landed(AdvanceTime(t, t.TickSamples), pos, row)


(* C38: in the order editor the order list is never empty, every entry    *)
(* indexes an existing pattern, and the cursor is an index of the list       *)
C38_OrderWellFormed ==
    /\ Len(Song.Order) >= 1
    /\ \A i \in 1..Len(Song.Order) : Song.Order[i] < Len(Song.Patterns)
    /\ 0 <= OrderCursor /\ OrderCursor < Len(Song.Order)

(* an entry was added and removed again, a pattern created and assigned,  *)
(* and a digit typed over an entry                                           *)
C38_Edited ==
    /\ Len(Song.Patterns) = 3 /\ Len(Song.Order) = 1
    /\ Song.Order[1] = 1 /\ callsLeft = 0


(* what holds of the voices that are inactive in state s, through a tick,  *)
(* a rendered sample and a processed row; `whole` asks for a contribution of *)
(* 0 also from a channel that replays an echo                                *)
InactiveThroughTick(s) ==
    \A t \in {ProcessTick(s)} :
        ~t.panic => \A ch \in DOMAIN s.Channels :
                       ~s.Channels[ch].Active => t.Channels[ch] = s.Channels[ch]

InactiveThroughSample(s, whole) ==
    \A r \in {RenderFrom(s, 0)} :
        ~r.panic =>
            \A ch \in DOMAIN s.Channels :
                ~s.Channels[ch].Active =>
                    /\ r.Channels[ch] = s.Channels[ch]
                    /\ BufGet(r.EchoBuffers[ch], s.EchoPos[ch]) = 0
                    /\ (whole \/ ~Echoing(s.Channels[ch], Len(s.Channels))) => r.contrib[ch] = 0

InactiveThroughRow(s) ==
    \A p \in {ProcessRow(s)} :
        ~p.panic =>
            \A ch \in DOMAIN s.Channels :
                (~s.Channels[ch].Active /\ p.Channels[ch].Active) =>
                    /\ HasCell(s) /\ ch <= s.Song.Channels
                    /\ CellAt(s, ch).Pitch >= 0

InactiveVoices(whole) ==
    ~panic =>
        /\ InactiveThroughTick(TickEntry(Player))
        /\ InactiveThroughSample(Player, whole)
        /\ InactiveThroughRow(Player)
        /\ \A ch \in DOMAIN Channels :
              /\ ~Stop(Player).Channels[ch].Active
              /\ \A pos \in 0..Len(Song.Order) :
                    SetPosition(Player, pos, 0).Channels[ch] = Channels[ch]

(* C39 as stated: an inactive voice is activated only by a note of a row   *)
(* being processed; while inactive it is left alone by the per-tick          *)
(* processing, its oscillator does not advance, 0 is written to its ring     *)
(* buffer and its channel adds 0 to the mix.                                 *)
C39_InactiveAddsNothing == InactiveVoices(TRUE)

(* C39, amended: the same, but the channel of an inactive voice adds 0 to   *)
(* the mix only when it replays no echo; a configured echo is added whether  *)
(* the voice is active or not.                                               *)
C39_InactiveAddsOnlyEcho == InactiveVoices(FALSE)

(* a stopped voice that keeps its frequency, and an inactive voice whose   *)
(* channel has just added an echo to the mix                                 *)
C39_SilencedVoice ==
    /\ ~panic /\ Len(buffer) > 0
    /\ \E ch \in DOMAIN Channels :
          ~Channels[ch].Active /\ Channels[ch].Oscillator.Frequency > 0
    /\ \E ch \in DOMAIN Channels :
          ~Channels[ch].Active /\ Echoing(Channels[ch], Len(Channels)) /\ contrib[ch] # 0


(* the playing song is at an order position whose entry names no pattern *)
AtMissingPattern ==
    /\ Playing /\ ~panic
    /\ Position < Len(Song.Order)
    /\ Pattern = Song.Order[Position + 1]
    /\ Pattern >= Len(Song.Patterns)

RECURSIVE LongestPattern(_, _)
LongestPattern(song, i) ==
    IF i > Len(song.Patterns) THEN 0
    ELSE Max(song.Patterns[i].Rows, LongestPattern(song, i + 1))

(* C40: at an order position whose entry names a missing pattern no row is *)
(* processed, and playback has left the position before it has spent more    *)
(* rows there than the longest pattern of the song has.                      *)
C40_MissingPatternIsLeft ==
    AtMissingPattern => (rowLog = <<>> /\ Row < LongestPattern(Song, 1))

=============================================================================
